---- MODULE Spec2Model ----
(***************************************************************************)
(* Readiness polling and credential provisioning of the LucidLink Windows  *)
(* client wizard (src/ll-win-client.py; src/ll-win-client-aws.py is the    *)
(* same code for every function modelled here except deploy_infrastructure *)
(* and start_all_instances).                                               *)
(*                                                                         *)
(* Strings the code inspects character by character (passwords) are        *)
(* sequences of one-character strings.  Python's None and "" are both the  *)
(* empty sequence: every use the code makes of an Optional[str] is a       *)
(* truthiness test (`if password:`, `if not password:`, `if username:`).   *)
(***************************************************************************)
EXTENDS Integers, Sequences, FiniteSets, TLC

\* ------------------------------------------------------------------ bounds
\* Longest requested length explored for generate_secure_password, besides
\* the default length.
MaxLen == 3
\* Number of free trailing characters of a default-length sample (the
\* leading characters are one repeated character).
TailLen == 3
\* Largest number of instances in the provisioning outputs.
MaxInstances == 2
\* Number of menu operations started in one behaviour.
MaxRuns == 2
\* Longest scripted prefix of a channel's answers.
ScriptLen == 3
\* Largest timeout_minutes tried besides the one the batches pass.
MaxTimeout == 2

\* ------------------------------------------------------- program constants
\* generate_secure_password(self, length: int = 16)
DefaultLength == 16
\* max_attempts = 30 in set_windows_password_via_ssm
max_attempts == 30
\* time.sleep(2) between result polls
PollSleepSeconds == 2
\* check_interval = 30 in wait_for_ssm_ready
check_interval == 30
\* wait_for_ssm_ready(instance_ids, timeout_minutes=15) at both call sites
BatchTimeoutMinutes == 15

\* ---------------------------------------------------------------- helpers
None == <<>>

Truthy(s) == s /= <<>>

Max(a, b) == IF a >= b THEN a ELSE b

Min(a, b) == IF a <= b THEN a ELSE b

\* Python s[:-k]
DropLast(s, k) == SubSeq(s, 1, Max(Len(s) - k, 0))

\* Python s[-k:]
TakeLast(s, k) == SubSeq(s, Max(Len(s) - k, 0) + 1, Len(s))

\* Python c * n
Fill(c, n) == [i \in 1..n |-> c]

\* Python zip(a, b) stops at the shorter list: its index range
ZipRange(a, b) == 1..Min(Len(a), Len(b))

\* -------------------------------------------- generate_secure_password
\* Representatives of string.ascii_uppercase, string.ascii_lowercase,
\* string.digits and the symbols "!@#$%^&*".
UpperChars == {"A", "Z"}

LowerChars == {"a", "z"}

DigitChars == {"0", "9"}

SymbolChars == {"!", "*"}

alphabet == UpperChars \cup LowerChars \cup DigitChars \cup SymbolChars

isupper(c) == c \in UpperChars

islower(c) == c \in LowerChars

isdigit(c) == c \in DigitChars

AnyUpper(s) == \E i \in 1..Len(s) : isupper(s[i])

AnyLower(s) == \E i \in 1..Len(s) : islower(s[i])

AnyDigit(s) == \E i \in 1..Len(s) : isdigit(s[i])

\* The three patching steps, applied in the code's order to the sampled
\* string; u, l, d are the characters secrets.choice would draw.
PatchUpper(p, u) == IF ~AnyUpper(p) THEN DropLast(p, 1) \o <<u>> ELSE p

PatchLower(p, l) ==
    IF ~AnyLower(p) THEN DropLast(p, 2) \o <<l>> \o <<p[Len(p)]>> ELSE p

PatchDigit(p, d) ==
    IF ~AnyDigit(p) THEN DropLast(p, 3) \o <<d>> \o TakeLast(p, 2) ELSE p

generate_secure_password(sample, u, l, d) ==
    PatchDigit(PatchLower(PatchUpper(sample, u), l), d)

\* Samples of a given length: every string up to MaxLen, and for longer
\* strings one repeated character followed by TailLen free characters.
StringsOfLen(n) == [1..n -> alphabet]

SamplesOfLen(n) ==
    IF n <= MaxLen THEN StringsOfLen(n)
    ELSE { Fill(c, n - TailLen) \o t : c \in alphabet, t \in StringsOfLen(TailLen) }

Lengths == (1..MaxLen) \cup {DefaultLength}

\* The sample the batch operations draw: one without an uppercase letter,
\* which the patching completes in as many ways as there are uppercase
\* letters to choose.
BatchSamples == { Fill("*", DefaultLength - 3) \o <<"z", "9", "*">> }

\* What generate_secure_password() returns on those samples.
GeneratedPasswords ==
    { generate_secure_password(sample, u, l, d) :
        sample \in BatchSamples, u \in UpperChars, l \in LowerChars, d \in DigitChars }

\* ------------------------------------------------------------------ state
VARIABLES
    \* environment
    outputs,            \* what get_terraform_outputs() returns
    status_answers,     \* the answers describe_instance_information gives
                        \* to the first queries of a wait; any answer after
    invocation_answers, \* the answers get_command_invocation gives to the
                        \* first polls of a dispatch; any answer after
    \* filesystem under ~/Desktop/LucidLink-DCV
    passwords_file,     \* PASSWORDS.txt
    dcv_files,          \* <instance_name>.dcv, by instance_name
    \* the menu operation in progress
    pc, op, run,
    instance_ids, public_ips,
    dcv_password, shared_password, retrieved, passwords, idx, ssm_ready,
    \* wait_for_ssm_ready's frame
    w_pc, w_instance_ids, timeout_minutes, max_checks, check_num, w_idx,
    w_ready_instances, all_ready,
    w_asked,            \* status queries answered from status_answers
    \* set_windows_password_via_ssm's frame
    s_pc, s_instance, s_password, attempt, s_ret,
    s_reason,           \* which return statement was taken
    s_polls,            \* get_command_invocation calls made
    s_sleeps,           \* seconds slept between polls
    s_last,             \* the answer that ended the polling
    \* history of the current run
    generated,          \* credentials generated, in order
    sent,               \* send_command calls, in order: [instance_id, password]
    calls,              \* set_windows_password_via_ssm calls, in order
    scripts,            \* deployment-script runs: [instance_id, password]
    applied,            \* instances whose dispatch was answered Success
    record_writes,      \* writes of PASSWORDS.txt: the pc of each
    exit_pc,            \* where the process was when it exited
    \* generate_secure_password's frame
    gp_pc, gp_length, gp_sample, gp_password,
    \* generate_dcv_file called on its own
    dcv_call,           \* the arguments of the latest call
    dcv_before,         \* the descriptor of that name before the call
    \* stop_all_instances, start_all_instances
    ec2_instances,      \* what describe_instances answers, in its order
    running_instances,
    stopped_instances,
    read_password,      \* `password`, read back from PASSWORDS.txt
    \* configure_deployment, deploy_infrastructure, destroy_infrastructure
    auto_approve,       \* self.auto_approve
    config,             \* self.config
    client_config_file, \* the configuration save_config stored
    client_config_exists, \* self.client_config_file.exists()
    steps               \* confirmations asked and commands run, in order

envVars == <<outputs, status_answers, invocation_answers>>

fileVars == <<passwords_file, dcv_files>>

batchVars == <<pc, op, run, instance_ids, public_ips, dcv_password,
               shared_password, retrieved, passwords, idx, ssm_ready>>

waitVars == <<w_pc, w_instance_ids, timeout_minutes, max_checks, check_num,
              w_idx, w_ready_instances, all_ready, w_asked>>

ssmVars == <<s_pc, s_instance, s_password, attempt, s_ret,
             s_reason, s_polls, s_sleeps, s_last>>

histVars == <<generated, sent, calls, scripts, applied, record_writes, exit_pc>>

gpVars == <<gp_pc, gp_length, gp_sample, gp_password>>

dcvVars == <<dcv_call, dcv_before>>

startVars == <<ec2_instances, running_instances, stopped_instances, read_password>>

tfVars == <<auto_approve, config, client_config_file, client_config_exists,
           steps>>

opsVars == <<dcvVars, startVars, tfVars>>

vars == <<envVars, fileVars, batchVars, waitVars, ssmVars, histVars, gpVars,
          opsVars>>

\* A Python dict, as a function on its keys.
EmptyDict == [k \in {} |-> None]

DictSet(dict, k, v) == (k :> v) @@ dict

\* ------------------------------------------------- provisioning outputs
AllIds == <<"i-1", "i-2", "i-3", "i-4">>

AllIps == <<"10.0.0.1", "10.0.0.2", "10.0.0.3", "10.0.0.4">>

\* Outputs the provisioning backend can report: up to MaxInstances
\* instance IDs and at most as many public IPs; or nothing at all.
OutputSets ==
    { [present |-> TRUE, instance_ids |-> SubSeq(AllIds, 1, n),
       public_ips |-> SubSeq(AllIps, 1, m)] :
        n \in 0..MaxInstances, m \in 0..MaxInstances } \cup
    { [present |-> FALSE, instance_ids |-> <<>>, public_ips |-> <<>>] }

ReachableOutputs ==
    { o \in OutputSets : Len(o.public_ips) <= Len(o.instance_ids) }

\* ------------------------------------------------------------ the files
\* f"ll-win-client-{idx + 1}" for the 0-based position idx
instance_name(i) == <<"ll-win-client-", i>>

Names == { instance_name(i) : i \in 1..(MaxInstances + 1) }

NoFile == [exists |-> FALSE, password |-> None, lines |-> <<>>, note |-> FALSE]

NoDcv == [exists |-> FALSE, host |-> None, has_user |-> FALSE, user |-> None,
          has_password |-> FALSE, password |-> None]

\* Variant of dcv_content: the password line is written whether or not a
\* password was passed.
dcv_content_always_password(instance_ip, username, password) ==
    [exists |-> TRUE, host |-> instance_ip,
     has_user |-> Truthy(username),
     user |-> IF Truthy(username) THEN username ELSE None,
     has_password |-> TRUE,
     password |-> password]

\* The [connect] section generate_dcv_file writes.
dcv_content(instance_ip, username, password) ==
    [exists |-> TRUE, host |-> instance_ip,
     has_user |-> Truthy(username),
     user |-> IF Truthy(username) THEN username ELSE None,
     has_password |-> Truthy(password),
     password |-> IF Truthy(password) THEN password ELSE None]

\* generate_dcv_file for every pair of zip(instance_ids, public_ips)
generate_dcv_files(files, ids, ips, password) ==
    [n \in Names |->
        IF \E i \in ZipRange(ids, ips) : n = instance_name(i)
        THEN dcv_content(ips[CHOOSE i \in ZipRange(ids, ips) : n = instance_name(i)],
                         None, password)
        ELSE files[n]]

SetStatus == "Password set"

NotSetStatus == "Not set"

\* The record deploy_infrastructure writes before the readiness wait: one
\* line per pair of zip(instance_ids, public_ips), each "Password set".
early_record(password, ids, ips) ==
    [exists |-> TRUE, password |-> password,
     lines |-> [i \in ZipRange(ids, ips) |->
                  [instance_id |-> ids[i], public_ip |-> ips[i],
                   status |-> SetStatus]],
     note |-> TRUE]

\* The record deploy_infrastructure writes after the dispatch loop: one
\* line per instance ID, "N/A" where no IP is known.
deploy_record(password, ids, ips, pws) ==
    [exists |-> TRUE, password |-> password,
     lines |-> [i \in 1..Len(ids) |->
                  [instance_id |-> ids[i],
                   public_ip |-> IF i - 1 < Len(ips) THEN ips[i] ELSE "N/A",
                   status |-> IF ids[i] \in DOMAIN pws THEN SetStatus
                              ELSE NotSetStatus]],
     note |-> TRUE]

\* The record regenerate_connection_files writes: one line per pair of
\* zip(instance_ids, public_ips).
regenerate_record(password, ids, ips, pws) ==
    [exists |-> TRUE, password |-> password,
     lines |-> [i \in ZipRange(ids, ips) |->
                  [instance_id |-> ids[i], public_ip |-> ips[i],
                   status |-> IF ids[i] \in DOMAIN pws THEN SetStatus
                              ELSE NotSetStatus]],
     note |-> TRUE]

\* The record written after get_windows_password: no status on its lines.
retrieved_record(password, ids, ips) ==
    [exists |-> TRUE, password |-> password,
     lines |-> [i \in 1..Len(ids) |->
                  [instance_id |-> ids[i],
                   public_ip |-> IF i - 1 < Len(ips) THEN ips[i] ELSE "N/A",
                   status |-> ""]],
     note |-> FALSE]

\* ------------------------------------------------ check_ssm_agent_status
\* What describe_instance_information can answer: an error, an empty
\* InstanceInformationList, an entry without PingStatus, or an entry with
\* a PingStatus ("online" stands for any string other than the listed).
PingStatusValues == {"Online", "ConnectionLost", "Inactive", "online"}

StatusResponses ==
    { [kind |-> "raise", PingStatus |-> ""],
      [kind |-> "empty", PingStatus |-> ""],
      [kind |-> "no_ping_status", PingStatus |-> ""] } \cup
    { [kind |-> "info", PingStatus |-> p] : p \in PingStatusValues }

\* Variant of check_ssm_agent_status: an entry without PingStatus counts
\* as Online.
check_ssm_agent_status_default_online(response) ==
    CASE response.kind = "raise" -> "Unknown"
      [] response.kind = "empty" -> "NotRegistered"
      [] response.kind = "no_ping_status" -> "Online"
      [] OTHER -> response.PingStatus

check_ssm_agent_status(response) ==
    CASE response.kind = "raise" -> "Unknown"
      [] response.kind = "empty" -> "NotRegistered"
      [] response.kind = "no_ping_status" -> "Unknown"
      [] OTHER -> response.PingStatus

\* ----------------------------------------------------- wait_for_ssm_ready
\* max_checks = timeout_seconds // check_interval
MaxChecks(minutes) == (minutes * 60) \div check_interval

\* Entry: the frame a call of wait_for_ssm_ready(ids, timeout_minutes=minutes)
\* sets up.
wait_for_ssm_ready_call(ids, minutes) ==
    /\ w_pc' = "for"
    /\ w_instance_ids' = ids
    /\ timeout_minutes' = minutes
    /\ max_checks' = MaxChecks(minutes)
    /\ check_num' = 0
    /\ w_idx' = 0
    /\ w_ready_instances' = EmptyDict
    /\ all_ready' = TRUE
    /\ w_asked' = 0

\* `for check_num in range(max_checks)`: start the next round, or leave the
\* loop when the range is exhausted.
wait_next_check ==
    /\ w_pc = "for"
    /\ IF check_num < max_checks
       THEN /\ w_pc' = "inner"
            /\ all_ready' = TRUE
            /\ w_idx' = 1
       ELSE /\ w_pc' = "fill"
            /\ UNCHANGED <<all_ready, w_idx>>
    /\ UNCHANGED <<w_instance_ids, timeout_minutes, max_checks, check_num,
                   w_ready_instances, w_asked>>
    /\ UNCHANGED <<envVars, fileVars, batchVars, ssmVars, histVars, gpVars, opsVars>>

\* `if inst_id in ready_instances: continue`
wait_skip_ready ==
    /\ w_pc = "inner"
    /\ w_idx <= Len(w_instance_ids)
    /\ w_instance_ids[w_idx] \in DOMAIN w_ready_instances
    /\ w_idx' = w_idx + 1
    /\ UNCHANGED <<w_pc, w_instance_ids, timeout_minutes, max_checks, check_num,
                   w_ready_instances, all_ready, w_asked>>
    /\ UNCHANGED <<envVars, fileVars, batchVars, ssmVars, histVars, gpVars, opsVars>>

\* Variant of wait_query: every instance is queried in every round, and an
\* answer other than Online takes the instance out of the dict.
wait_query_every_round(response) ==
    /\ w_pc = "inner"
    /\ w_idx <= Len(w_instance_ids)
    /\ LET status == check_ssm_agent_status(response) IN
       IF status = "Online"
       THEN /\ w_ready_instances' =
                  DictSet(w_ready_instances, w_instance_ids[w_idx], TRUE)
            /\ UNCHANGED all_ready
       ELSE /\ all_ready' = FALSE
            /\ w_ready_instances' =
                  [id \in DOMAIN w_ready_instances \ {w_instance_ids[w_idx]} |->
                      w_ready_instances[id]]
    /\ IF w_asked < Len(status_answers)
       THEN /\ response = status_answers[w_asked + 1]
            /\ w_asked' = w_asked + 1
       ELSE UNCHANGED w_asked
    /\ w_idx' = w_idx + 1
    /\ UNCHANGED <<w_pc, w_instance_ids, timeout_minutes, max_checks, check_num>>
    /\ UNCHANGED <<envVars, fileVars, batchVars, ssmVars, histVars, gpVars, opsVars>>

\* Variant of wait_query: a status query that raises ends the rounds.
wait_query_raise_aborts(response) ==
    /\ w_pc = "inner"
    /\ w_idx <= Len(w_instance_ids)
    /\ w_instance_ids[w_idx] \notin DOMAIN w_ready_instances
    /\ LET status == check_ssm_agent_status(response) IN
       IF status = "Online"
       THEN /\ w_ready_instances' =
                  DictSet(w_ready_instances, w_instance_ids[w_idx], TRUE)
            /\ UNCHANGED all_ready
       ELSE /\ all_ready' = FALSE
            /\ UNCHANGED w_ready_instances
    /\ IF w_asked < Len(status_answers)
       THEN /\ response = status_answers[w_asked + 1]
            /\ w_asked' = w_asked + 1
       ELSE UNCHANGED w_asked
    /\ w_idx' = w_idx + 1
    /\ w_pc' = IF response.kind = "raise" THEN "fill" ELSE w_pc
    /\ UNCHANGED <<w_instance_ids, timeout_minutes, max_checks, check_num>>
    /\ UNCHANGED <<envVars, fileVars, batchVars, ssmVars, histVars, gpVars, opsVars>>

\* One status query of the inner loop, answered by `response`.
wait_query(response) ==
    /\ w_pc = "inner"
    /\ w_idx <= Len(w_instance_ids)
    /\ w_instance_ids[w_idx] \notin DOMAIN w_ready_instances
    /\ LET status == check_ssm_agent_status(response) IN
       IF status = "Online"
       THEN /\ w_ready_instances' =
                  DictSet(w_ready_instances, w_instance_ids[w_idx], TRUE)
            /\ UNCHANGED all_ready
       ELSE /\ all_ready' = FALSE
            /\ UNCHANGED w_ready_instances
    /\ IF w_asked < Len(status_answers)
       THEN /\ response = status_answers[w_asked + 1]
            /\ w_asked' = w_asked + 1
       ELSE UNCHANGED w_asked
    /\ w_idx' = w_idx + 1
    /\ UNCHANGED <<w_pc, w_instance_ids, timeout_minutes, max_checks, check_num>>
    /\ UNCHANGED <<envVars, fileVars, batchVars, ssmVars, histVars, gpVars, opsVars>>

\* `status = self.check_ssm_agent_status(inst_id)` and the branch on it.
wait_check_status == \E response \in StatusResponses : wait_query(response)

\* Variant of wait_round_end: the loop does not break when all_ready.
wait_round_end_no_break ==
    /\ w_pc = "inner"
    /\ w_idx > Len(w_instance_ids)
    /\ w_pc' = "for"
    /\ check_num' = check_num + 1
    /\ UNCHANGED <<w_instance_ids, timeout_minutes, max_checks, w_idx,
                   w_ready_instances, all_ready, w_asked>>
    /\ UNCHANGED <<envVars, fileVars, batchVars, ssmVars, histVars, gpVars, opsVars>>

\* End of a round: break when all_ready, else sleep (except after the last
\* check) and go on to the next check.
wait_round_end ==
    /\ w_pc = "inner"
    /\ w_idx > Len(w_instance_ids)
    /\ IF all_ready
       THEN /\ w_pc' = "fill"
            /\ UNCHANGED check_num
       ELSE /\ w_pc' = "for"
            /\ check_num' = check_num + 1
    /\ UNCHANGED <<w_instance_ids, timeout_minutes, max_checks, w_idx,
                   w_ready_instances, all_ready, w_asked>>
    /\ UNCHANGED <<envVars, fileVars, batchVars, ssmVars, histVars, gpVars, opsVars>>

\* Variant of wait_return: the dict is returned as the rounds left it.
wait_return_unfilled ==
    /\ w_pc = "fill"
    /\ w_pc' = "returned"
    /\ UNCHANGED <<w_instance_ids, timeout_minutes, max_checks, check_num, w_idx,
                   w_ready_instances, all_ready, w_asked>>
    /\ UNCHANGED <<envVars, fileVars, batchVars, ssmVars, histVars, gpVars, opsVars>>

\* Map the instances that are not ready to False and return the dict.
wait_return ==
    /\ w_pc = "fill"
    /\ w_ready_instances' =
         [id \in DOMAIN w_ready_instances \cup
                 { w_instance_ids[i] : i \in 1..Len(w_instance_ids) } |->
            IF id \in DOMAIN w_ready_instances THEN w_ready_instances[id]
            ELSE FALSE]
    /\ w_pc' = "returned"
    /\ UNCHANGED <<w_instance_ids, timeout_minutes, max_checks, check_num, w_idx,
                   all_ready, w_asked>>
    /\ UNCHANGED <<envVars, fileVars, batchVars, ssmVars, histVars, gpVars, opsVars>>

\* ------------------------------------------- set_windows_password_via_ssm
\* What get_command_invocation can answer: a result with a Status, the
\* InvocationDoesNotExist error, or any other error.
InvocationStatusValues ==
    {"Success", "Failed", "Cancelled", "TimedOut",
     "Pending", "InProgress", "Delayed", "Cancelling"}

InvocationResponses ==
    { [kind |-> "InvocationDoesNotExist", Status |-> ""],
      [kind |-> "raise", Status |-> ""] } \cup
    { [kind |-> "result", Status |-> st] : st \in InvocationStatusValues }

NoResponse == [kind |-> "none", Status |-> ""]

\* Entry: the frame a call of set_windows_password_via_ssm sets up.
set_windows_password_via_ssm_call(instance_id, password) ==
    /\ s_pc' = "call"
    /\ s_instance' = instance_id
    /\ s_password' = password
    /\ attempt' = 0
    /\ s_ret' = None
    /\ s_reason' = "none"
    /\ s_polls' = 0
    /\ s_sleeps' = 0
    /\ s_last' = NoResponse
    /\ calls' = Append(calls, instance_id)

\* `return value` of set_windows_password_via_ssm: the frame is left, the
\* value and the return statement taken are what the caller is given.
ssm_return(value, reason) ==
    /\ s_pc' = "returned"
    /\ s_ret' = value
    /\ s_reason' = reason
    /\ attempt' = 0
    /\ s_polls' = 0
    /\ s_sleeps' = 0

\* The statements before send_command raise and the outer `except Exception`
\* returns None with no command sent. `import boto3` comes before
\* `if not password: password = self.generate_secure_password()` and
\* boto3.client('ssm') after it: when the client raises and no password was
\* passed, one password has been generated already.
ssm_setup_raises ==
    /\ s_pc = "call"
    /\ \E raising \in {"import", "client"},
          password \in (IF Truthy(s_password) THEN {s_password}
                        ELSE GeneratedPasswords) :
         IF raising = "client" /\ ~Truthy(s_password)
         THEN /\ s_password' = password
              /\ generated' = Append(generated, password)
         ELSE UNCHANGED <<s_password, generated>>
    /\ ssm_return(None, "error")
    /\ UNCHANGED <<s_instance, s_last>>
    /\ UNCHANGED <<sent, calls, scripts, applied, record_writes, exit_pc>>
    /\ UNCHANGED <<envVars, fileVars, batchVars, waitVars, gpVars, opsVars>>

\* `if not password: password = self.generate_secure_password()`, then
\* ssm.send_command, which returns a command id or raises.
ssm_send_command ==
    /\ s_pc = "call"
    /\ \E ok \in BOOLEAN,
          password \in (IF Truthy(s_password) THEN {s_password}
                        ELSE GeneratedPasswords) :
         /\ s_password' = password
         /\ generated' = IF Truthy(s_password) THEN generated
                         ELSE Append(generated, password)
         /\ sent' = Append(sent, [instance_id |-> s_instance, password |-> password])
         /\ IF ok
            THEN /\ s_pc' = "loop"
                 /\ UNCHANGED <<s_ret, s_reason, attempt, s_polls, s_sleeps>>
            ELSE ssm_return(None, "error")
    /\ UNCHANGED <<s_instance, s_last>>
    /\ UNCHANGED <<calls, scripts, applied, record_writes, exit_pc>>
    /\ UNCHANGED <<envVars, fileVars, batchVars, waitVars, gpVars, opsVars>>

\* Variant of ssm_sleep: a loop that admits one iteration more than
\* range(max_attempts) does.
ssm_sleep_one_more ==
    /\ s_pc = "loop"
    /\ attempt <= max_attempts
    /\ s_sleeps' = s_sleeps + PollSleepSeconds
    /\ s_pc' = "poll"
    /\ UNCHANGED <<s_instance, s_password, attempt, s_ret, s_reason, s_polls, s_last>>
    /\ UNCHANGED <<envVars, fileVars, batchVars, waitVars, histVars, gpVars, opsVars>>

\* `for attempt in range(max_attempts): time.sleep(2)`
ssm_sleep ==
    /\ s_pc = "loop"
    /\ attempt < max_attempts
    /\ s_sleeps' = s_sleeps + PollSleepSeconds
    /\ s_pc' = "poll"
    /\ UNCHANGED <<s_instance, s_password, attempt, s_ret, s_reason, s_polls, s_last>>
    /\ UNCHANGED <<envVars, fileVars, batchVars, waitVars, histVars, gpVars, opsVars>>

\* The loop ran max_attempts times without a return: "SSM command timed out".
ssm_timed_out ==
    /\ s_pc = "loop"
    /\ attempt >= max_attempts
    /\ ssm_return(None, "timeout")
    /\ UNCHANGED <<s_instance, s_password, s_last>>
    /\ UNCHANGED <<envVars, fileVars, batchVars, waitVars, histVars, gpVars, opsVars>>

\* Variant of PollVerdict: Cancelled is taken for a status still in progress.
PollVerdictCancelledPending(response) ==
    CASE response.kind = "InvocationDoesNotExist" -> "continue"
      [] response.kind = "raise" -> "error"
      [] response.Status = "Success" -> "success"
      [] response.Status \in {"Failed", "TimedOut"} -> "failed"
      [] OTHER -> "continue"

\* Variant of PollVerdict: InvocationDoesNotExist is handled as any other
\* error.
PollVerdictNotRegisteredFails(response) ==
    CASE response.kind = "InvocationDoesNotExist" -> "error"
      [] response.kind = "raise" -> "error"
      [] response.Status = "Success" -> "success"
      [] response.Status \in {"Failed", "Cancelled", "TimedOut"} -> "failed"
      [] OTHER -> "continue"

\* Variant of PollVerdict: an error raised by a poll is swallowed and the
\* polling goes on.
PollVerdictErrorIgnored(response) ==
    CASE response.kind = "InvocationDoesNotExist" -> "continue"
      [] response.kind = "raise" -> "continue"
      [] response.Status = "Success" -> "success"
      [] response.Status \in {"Failed", "Cancelled", "TimedOut"} -> "failed"
      [] OTHER -> "continue"

\* Variant of PollVerdict: a status that is not recognised ends the dispatch
\* like a failed command.
PollVerdictUnrecognisedFails(response) ==
    CASE response.kind = "InvocationDoesNotExist" -> "continue"
      [] response.kind = "raise" -> "error"
      [] response.Status = "Success" -> "success"
      [] response.Status \in {"Failed", "Cancelled", "TimedOut"} -> "failed"
      [] response.Status \in {"Pending", "InProgress", "Delayed"} -> "continue"
      [] OTHER -> "failed"

\* What one poll's response does to the dispatch.
PollVerdict(response) ==
    CASE response.kind = "InvocationDoesNotExist" -> "continue"
      [] response.kind = "raise" -> "error"
      [] response.Status = "Success" -> "success"
      [] response.Status \in {"Failed", "Cancelled", "TimedOut"} -> "failed"
      [] response.Status \in {"Pending", "InProgress", "Delayed"} -> "continue"
      [] OTHER -> "continue"

\* Variant of ssm_poll: a failed command is sent again instead of returning.
ssm_poll_resend(response) ==
    /\ s_pc = "poll"
    /\ s_polls < Len(invocation_answers)
         => response = invocation_answers[s_polls + 1]
    /\ LET verdict == PollVerdict(response) IN
       CASE verdict = "success" ->
              /\ ssm_return(s_password, "success")
              /\ s_last' = response
              /\ applied' = applied \cup {s_instance}
         [] verdict = "failed" ->
              /\ s_pc' = "call"
              /\ attempt' = 0
              /\ s_polls' = 0
              /\ s_sleeps' = 0
              /\ UNCHANGED <<s_ret, s_reason, s_last, applied>>
         [] verdict = "error" ->
              /\ ssm_return(None, "error")
              /\ s_last' = response
              /\ UNCHANGED applied
         [] OTHER ->
              /\ s_pc' = "loop"
              /\ attempt' = attempt + 1
              /\ s_polls' = s_polls + 1
              /\ UNCHANGED <<s_ret, s_reason, s_last, s_sleeps, applied>>
    /\ UNCHANGED <<s_instance, s_password>>
    /\ UNCHANGED <<generated, sent, calls, scripts, record_writes, exit_pc>>
    /\ UNCHANGED <<envVars, fileVars, batchVars, waitVars, gpVars, opsVars>>

\* One get_command_invocation answered by `response`, and the branch taken.
ssm_poll(response) ==
    /\ s_pc = "poll"
    /\ s_polls < Len(invocation_answers)
         => response = invocation_answers[s_polls + 1]
    /\ LET verdict == PollVerdict(response) IN
       CASE verdict = "success" ->
              /\ ssm_return(s_password, "success")
              /\ s_last' = response
              /\ applied' = applied \cup {s_instance}
         [] verdict = "failed" ->
              /\ ssm_return(None, "failed")
              /\ s_last' = response
              /\ UNCHANGED applied
         [] verdict = "error" ->
              /\ ssm_return(None, "error")
              /\ s_last' = response
              /\ UNCHANGED applied
         [] OTHER ->
              /\ s_pc' = "loop"
              /\ attempt' = attempt + 1
              /\ s_polls' = s_polls + 1
              /\ UNCHANGED <<s_ret, s_reason, s_last, s_sleeps, applied>>
    /\ UNCHANGED <<s_instance, s_password>>
    /\ UNCHANGED <<generated, sent, calls, scripts, record_writes, exit_pc>>
    /\ UNCHANGED <<envVars, fileVars, batchVars, waitVars, gpVars, opsVars>>

ssm_get_command_invocation ==
    \E response \in InvocationResponses : ssm_poll(response)

\* ------------------------------------------------------ frames at rest
WaitIdle ==
    /\ w_pc' = "idle"
    /\ w_instance_ids' = <<>>
    /\ max_checks' = 0
    /\ check_num' = 0
    /\ w_idx' = 0
    /\ w_ready_instances' = EmptyDict
    /\ all_ready' = TRUE
    /\ w_asked' = 0
    /\ timeout_minutes' = 0

SsmIdle ==
    /\ s_pc' = "idle"
    /\ s_instance' = ""
    /\ s_password' = None
    /\ attempt' = 0
    /\ s_ret' = None
    /\ s_reason' = "none"
    /\ s_polls' = 0
    /\ s_sleeps' = 0
    /\ s_last' = NoResponse

LocalsIdle ==
    /\ instance_ids' = <<>>
    /\ public_ips' = <<>>
    /\ dcv_password' = None
    /\ shared_password' = None
    /\ retrieved' = None
    /\ passwords' = EmptyDict
    /\ idx' = 0
    /\ ssm_ready' = EmptyDict

HistoryIdle ==
    /\ generated' = <<>>
    /\ sent' = <<>>
    /\ calls' = <<>>
    /\ scripts' = <<>>
    /\ applied' = {}

\* The instances wait_for_ssm_ready mapped to True.
ReadyInstances(ready) == { id \in DOMAIN ready : ready[id] }

\* ----------------------------------------- the dispatch loop of a batch
\* "Generate one password for all instances", then start the loop; or
\* leave when no instance is ready.
batch_partition(loop_pc) ==
    /\ w_pc = "returned"
    /\ ssm_ready' = w_ready_instances
    /\ WaitIdle
    /\ IF ReadyInstances(w_ready_instances) = {}
       THEN /\ pc' = "done"
            /\ UNCHANGED <<shared_password, passwords, idx, generated>>
       ELSE /\ \E password \in GeneratedPasswords :
                 /\ shared_password' = password
                 /\ generated' = Append(generated, password)
            /\ passwords' = EmptyDict
            /\ idx' = 1
            /\ pc' = loop_pc
    /\ UNCHANGED <<op, run, instance_ids, public_ips, dcv_password, retrieved>>
    /\ UNCHANGED <<sent, calls, scripts, applied, record_writes, exit_pc>>
    /\ UNCHANGED <<envVars, fileVars, ssmVars, gpVars, opsVars>>

\* Variant of batch_dispatch: the instance is dispatched whether Ready or not.
batch_dispatch_any(loop_pc, dispatch_pc) ==
    /\ pc = loop_pc
    /\ idx <= Len(instance_ids)
    /\ set_windows_password_via_ssm_call(instance_ids[idx], shared_password)
    /\ pc' = dispatch_pc
    /\ UNCHANGED <<op, run, instance_ids, public_ips, dcv_password,
                   shared_password, retrieved, passwords, idx, ssm_ready>>
    /\ UNCHANGED <<generated, sent, scripts, applied, record_writes, exit_pc>>
    /\ UNCHANGED <<envVars, fileVars, waitVars, gpVars, opsVars>>

\* Variant of batch_dispatch: the list is dispatched from its end.
batch_dispatch_reversed(loop_pc, dispatch_pc) ==
    /\ pc = loop_pc
    /\ idx <= Len(instance_ids)
    /\ instance_ids[idx] \in ReadyInstances(ssm_ready)
    /\ set_windows_password_via_ssm_call(
            instance_ids[Len(instance_ids) - idx + 1], shared_password)
    /\ pc' = dispatch_pc
    /\ UNCHANGED <<op, run, instance_ids, public_ips, dcv_password,
                   shared_password, retrieved, passwords, idx, ssm_ready>>
    /\ UNCHANGED <<generated, sent, scripts, applied, record_writes, exit_pc>>
    /\ UNCHANGED <<envVars, fileVars, waitVars, gpVars, opsVars>>

\* `if instance_id in ready_instances:` call set_windows_password_via_ssm
batch_dispatch(loop_pc, dispatch_pc) ==
    /\ pc = loop_pc
    /\ idx <= Len(instance_ids)
    /\ instance_ids[idx] \in ReadyInstances(ssm_ready)
    /\ set_windows_password_via_ssm_call(instance_ids[idx], shared_password)
    /\ pc' = dispatch_pc
    /\ UNCHANGED <<op, run, instance_ids, public_ips, dcv_password,
                   shared_password, retrieved, passwords, idx, ssm_ready>>
    /\ UNCHANGED <<generated, sent, scripts, applied, record_writes, exit_pc>>
    /\ UNCHANGED <<envVars, fileVars, waitVars, gpVars, opsVars>>

\* `else:` "Skipped - SSM not ready"
batch_skip(loop_pc) ==
    /\ pc = loop_pc
    /\ idx <= Len(instance_ids)
    /\ instance_ids[idx] \notin ReadyInstances(ssm_ready)
    /\ idx' = idx + 1
    /\ UNCHANGED <<pc, op, run, instance_ids, public_ips, dcv_password,
                   shared_password, retrieved, passwords, ssm_ready>>
    /\ UNCHANGED <<envVars, fileVars, waitVars, ssmVars, histVars, gpVars, opsVars>>

\* Variant of batch_dispatch_returned: a failed dispatch ends the loop.
batch_dispatch_returned_abort(loop_pc, dispatch_pc) ==
    /\ pc = dispatch_pc
    /\ s_pc = "returned"
    /\ passwords' = IF Truthy(s_ret)
                    THEN DictSet(passwords, instance_ids[idx], s_ret)
                    ELSE passwords
    /\ idx' = IF Truthy(s_ret) THEN idx + 1 ELSE Len(instance_ids) + 1
    /\ pc' = loop_pc
    /\ SsmIdle
    /\ UNCHANGED <<op, run, instance_ids, public_ips, dcv_password,
                   shared_password, retrieved, ssm_ready>>
    /\ UNCHANGED <<generated, sent, calls, scripts, applied, record_writes, exit_pc>>
    /\ UNCHANGED <<envVars, fileVars, waitVars, gpVars, opsVars>>

\* `if password: passwords[instance_id] = password`
batch_dispatch_returned(loop_pc, dispatch_pc) ==
    /\ pc = dispatch_pc
    /\ s_pc = "returned"
    /\ passwords' = IF Truthy(s_ret)
                    THEN DictSet(passwords, instance_ids[idx], s_ret)
                    ELSE passwords
    /\ idx' = idx + 1
    /\ pc' = loop_pc
    /\ SsmIdle
    /\ UNCHANGED <<op, run, instance_ids, public_ips, dcv_password,
                   shared_password, retrieved, ssm_ready>>
    /\ UNCHANGED <<generated, sent, calls, scripts, applied, record_writes, exit_pc>>
    /\ UNCHANGED <<envVars, fileVars, waitVars, gpVars, opsVars>>

\* A menu operation starts: the history of the previous one is dropped.
BeginRun(name) ==
    /\ pc = "menu"
    /\ run < MaxRuns
    /\ run' = run + 1
    /\ op' = name
    /\ HistoryIdle
    /\ record_writes' = <<>>
    /\ UNCHANGED exit_pc

\* ------------------------------------------ regenerate_connection_files
regenerate_connection_files ==
    /\ BeginRun("regenerate")
    /\ IF ~outputs.present \/ outputs.instance_ids = <<>> \/ outputs.public_ips = <<>>
       THEN /\ pc' = "done"
            /\ UNCHANGED <<instance_ids, public_ips>>
            /\ UNCHANGED waitVars
       ELSE /\ instance_ids' = outputs.instance_ids
            /\ public_ips' = outputs.public_ips
            /\ pc' = "r_wait"
            /\ wait_for_ssm_ready_call(outputs.instance_ids, BatchTimeoutMinutes)
    /\ UNCHANGED <<dcv_password, shared_password, retrieved, passwords, idx, ssm_ready>>
    /\ UNCHANGED <<envVars, fileVars, ssmVars, gpVars, opsVars>>

regenerate_partition ==
    /\ pc = "r_wait"
    /\ batch_partition("r_loop")

regenerate_dispatch == batch_dispatch("r_loop", "r_dispatch")

regenerate_skip == batch_skip("r_loop")

regenerate_dispatch_returned == batch_dispatch_returned("r_loop", "r_dispatch")

\* "Step 2: Generating connection files..."
regenerate_generate_dcv_files ==
    /\ pc = "r_loop"
    /\ idx > Len(instance_ids)
    /\ dcv_files' = generate_dcv_files(dcv_files, instance_ids, public_ips,
                                       shared_password)
    /\ pc' = "r_save"
    /\ UNCHANGED <<op, run, instance_ids, public_ips, dcv_password,
                   shared_password, retrieved, passwords, idx, ssm_ready>>
    /\ UNCHANGED <<envVars, passwords_file, waitVars, ssmVars, histVars, gpVars, opsVars>>

\* "Step 3: Saving password to file..."
regenerate_save_passwords ==
    /\ pc = "r_save"
    /\ IF passwords /= EmptyDict
       THEN /\ passwords_file' = regenerate_record(shared_password, instance_ids,
                                                   public_ips, passwords)
            /\ record_writes' = Append(record_writes, pc)
       ELSE UNCHANGED <<passwords_file, record_writes>>
    /\ pc' = "done"
    /\ UNCHANGED <<op, run, instance_ids, public_ips, dcv_password,
                   shared_password, retrieved, passwords, idx, ssm_ready>>
    /\ UNCHANGED <<generated, sent, calls, scripts, applied, exit_pc>>
    /\ UNCHANGED <<envVars, dcv_files, waitVars, ssmVars, gpVars, opsVars>>

\* ------------------------------------------------ deploy_infrastructure
\* What get_windows_password can hand back for the first instance.
RetrievedPasswords == { <<"E", "c", "2", "-", "p", "w", "1", "!">> }

\* Configuration check, confirmations, Terraform files, init, validate,
\* plan and apply: the run goes on to "Step 6" only when a configuration is
\* loaded, all of them succeeded and Terraform reported outputs.
deploy_infrastructure ==
    /\ BeginRun("deploy")
    /\ \E apply_ok \in BOOLEAN :
         IF apply_ok /\ config # EmptyDict /\ outputs.present
         THEN /\ instance_ids' = outputs.instance_ids
              /\ public_ips' = outputs.public_ips
              /\ pc' = "d_step6"
         ELSE /\ pc' = "done"
              /\ UNCHANGED <<instance_ids, public_ips>>
    /\ UNCHANGED <<dcv_password, shared_password, retrieved, passwords, idx, ssm_ready>>
    /\ UNCHANGED <<envVars, fileVars, waitVars, ssmVars, gpVars, opsVars>>

\* "Generate password and save to file": dcv_password is generated and
\* PASSWORDS.txt written before any instance is waited for.
deploy_save_dcv_password ==
    /\ pc = "d_step6"
    /\ \E password \in GeneratedPasswords :
         /\ dcv_password' = password
         /\ generated' = Append(generated, password)
         /\ passwords_file' = early_record(password, instance_ids, public_ips)
    /\ record_writes' = Append(record_writes, pc)
    /\ idx' = 1
    /\ pc' = "d_script"
    /\ UNCHANGED <<op, run, instance_ids, public_ips, shared_password,
                   retrieved, passwords, ssm_ready>>
    /\ UNCHANGED <<sent, calls, scripts, applied, exit_pc>>
    /\ UNCHANGED <<envVars, dcv_files, waitVars, ssmVars, gpVars, opsVars>>

\* One instance of the deployment loop: wait for the instance, then run
\* deploy-windows-client.sh with DCV_ADMIN_PASSWORD = dcv_password.
deploy_run_script ==
    /\ pc = "d_script"
    /\ idx <= Len(instance_ids)
    /\ scripts' = Append(scripts, [instance_id |-> instance_ids[idx],
                                   password |-> dcv_password])
    /\ idx' = idx + 1
    /\ UNCHANGED <<pc, op, run, instance_ids, public_ips, dcv_password,
                   shared_password, retrieved, passwords, ssm_ready>>
    /\ UNCHANGED <<generated, sent, calls, applied, record_writes, exit_pc>>
    /\ UNCHANGED <<envVars, fileVars, waitVars, ssmVars, gpVars, opsVars>>

\* "Generating connection files...": descriptors without a password.
deploy_generate_dcv_files ==
    /\ pc = "d_script"
    /\ idx > Len(instance_ids)
    /\ dcv_files' = generate_dcv_files(dcv_files, instance_ids, public_ips, None)
    /\ pc' = "d_password"
    /\ UNCHANGED <<op, run, instance_ids, public_ips, dcv_password,
                   shared_password, retrieved, passwords, idx, ssm_ready>>
    /\ UNCHANGED <<envVars, passwords_file, waitVars, ssmVars, histVars, gpVars, opsVars>>

\* `if ssh_key_name:` (the configuration names an SSH key; it is read anew
\* in every run) the operator may have the password of the first
\* instance retrieved; it is then saved to PASSWORDS.txt.  instance_ids[0]
\* raises on an empty list, which ends the process.
deploy_retrieve_password ==
    /\ pc = "d_password"
    /\ \E confirmed \in BOOLEAN, key_exists \in BOOLEAN,
          password \in RetrievedPasswords \cup {None} :
         IF ~(confirmed /\ key_exists)
         THEN /\ pc' = "done"
              /\ UNCHANGED <<retrieved, passwords_file, record_writes, exit_pc>>
         ELSE IF instance_ids = <<>>
         THEN /\ pc' = "exited"
              /\ exit_pc' = pc
              /\ UNCHANGED <<retrieved, passwords_file, record_writes>>
         ELSE IF ~Truthy(password)
         THEN /\ pc' = "done"
              /\ UNCHANGED <<retrieved, passwords_file, record_writes, exit_pc>>
         ELSE /\ retrieved' = password
              /\ passwords_file' = retrieved_record(password, instance_ids, public_ips)
              /\ record_writes' = Append(record_writes, pc)
              /\ pc' = "d_retrieved"
              /\ UNCHANGED exit_pc
    /\ UNCHANGED <<op, run, instance_ids, public_ips, dcv_password,
                   shared_password, passwords, idx, ssm_ready>>
    /\ UNCHANGED <<generated, sent, calls, scripts, applied>>
    /\ UNCHANGED <<envVars, dcv_files, waitVars, ssmVars, gpVars, opsVars>>

\* "Updating DCV files with password..." after a retrieved password.
deploy_retrieved_dcv_files ==
    /\ pc = "d_retrieved"
    /\ dcv_files' = generate_dcv_files(dcv_files, instance_ids, public_ips, retrieved)
    /\ pc' = "done"
    /\ UNCHANGED <<op, run, instance_ids, public_ips, dcv_password,
                   shared_password, retrieved, passwords, idx, ssm_ready>>
    /\ UNCHANGED <<envVars, passwords_file, waitVars, ssmVars, histVars, gpVars, opsVars>>

\* `else:` no SSH key, "use automated SSM password setting".
deploy_wait_for_ssm ==
    /\ pc = "d_password"
    /\ pc' = "d_wait"
    /\ wait_for_ssm_ready_call(instance_ids, BatchTimeoutMinutes)
    /\ UNCHANGED <<op, run, instance_ids, public_ips, dcv_password,
                   shared_password, retrieved, passwords, idx, ssm_ready>>
    /\ UNCHANGED <<envVars, fileVars, ssmVars, histVars, gpVars, opsVars>>

deploy_partition ==
    /\ pc = "d_wait"
    /\ batch_partition("d_loop")

deploy_dispatch == batch_dispatch("d_loop", "d_dispatch")

deploy_skip == batch_skip("d_loop")

deploy_dispatch_returned == batch_dispatch_returned("d_loop", "d_dispatch")

\* "Save password if any were set"
deploy_save_passwords ==
    /\ pc = "d_loop"
    /\ idx > Len(instance_ids)
    /\ IF passwords /= EmptyDict
       THEN /\ passwords_file' = deploy_record(shared_password, instance_ids,
                                               public_ips, passwords)
            /\ record_writes' = Append(record_writes, pc)
            /\ pc' = "d_update"
       ELSE /\ pc' = "done"
            /\ UNCHANGED <<passwords_file, record_writes>>
    /\ UNCHANGED <<op, run, instance_ids, public_ips, dcv_password,
                   shared_password, retrieved, passwords, idx, ssm_ready>>
    /\ UNCHANGED <<generated, sent, calls, scripts, applied, exit_pc>>
    /\ UNCHANGED <<envVars, dcv_files, waitVars, ssmVars, gpVars, opsVars>>

\* Variant of deploy_update_dcv_files: the descriptors get the credential of
\* Step 6 instead of the one of the dispatch loop.
deploy_update_dcv_files_step6_password ==
    /\ pc = "d_update"
    /\ dcv_files' = generate_dcv_files(dcv_files, instance_ids, public_ips,
                                       dcv_password)
    /\ pc' = "done"
    /\ UNCHANGED <<op, run, instance_ids, public_ips, dcv_password,
                   shared_password, retrieved, passwords, idx, ssm_ready>>
    /\ UNCHANGED <<envVars, passwords_file, waitVars, ssmVars, histVars, gpVars, opsVars>>

\* "Updating DCV files with password..." after the dispatch loop.
deploy_update_dcv_files ==
    /\ pc = "d_update"
    /\ dcv_files' = generate_dcv_files(dcv_files, instance_ids, public_ips,
                                       shared_password)
    /\ pc' = "done"
    /\ UNCHANGED <<op, run, instance_ids, public_ips, dcv_password,
                   shared_password, retrieved, passwords, idx, ssm_ready>>
    /\ UNCHANGED <<envVars, passwords_file, waitVars, ssmVars, histVars, gpVars, opsVars>>

\* ------------------------------------------------- the configuration file
\* dict.get(key) is truthy
Has(dict, key) == key \in DOMAIN dict /\ dict[key] # ""

\* base64.b64encode(s.encode('utf-8')).decode('utf-8') and its inverse
\* base64.b64decode(s).decode('utf-8'), for the passwords of Configs.
b64encode(text) == CASE text = "pw" -> "cHc="

b64decode(text) == CASE text = "cHc=" -> "pw"

\* What save_config writes for a configuration: the filespace password is
\* stored base64-encoded, with a flag.
save_config(cfg) ==
    IF Has(cfg, "filespace_password")
    THEN ("_password_encoded" :> "True") @@
         [cfg EXCEPT !["filespace_password"] = b64encode(@)]
    ELSE cfg

\* What load_config makes of the stored configuration: a password stored
\* under the flag is decoded and the flag is removed.
load_config(file) ==
    IF Has(file, "_password_encoded") /\ Has(file, "filespace_password")
    THEN [key \in DOMAIN file \ {"_password_encoded"} |->
            IF key = "filespace_password" THEN b64decode(file[key])
            ELSE file[key]]
    ELSE file

\* ---------------------------------------------------- configure_deployment
\* dict.get(key, default)
Get(dict, key, default) == IF key \in DOMAIN dict THEN dict[key] ELSE default

\* The dict the wizard builds from the operator's answers. A prompt with a
\* default returns the default for an empty answer, and its default is the
\* existing value of the key where there is one. In `answers`: domain is
\* the filespace domain typed ("" for the default), password the filespace
\* password typed, update the answer to "Update AWS credentials?", count
\* the number of instances typed, which is brought into 1..10, and
\* gpu_instance_types the list the operator picks the first entry of.
WizardConfig(existing_config, answers) ==
    LET kept == Has(existing_config, "aws_access_key_id") /\ ~answers.update IN
    ("region" :> Get(existing_config, "region", "us-east-1")) @@
    ("aws_access_key_id" :>
        IF kept THEN existing_config["aws_access_key_id"] ELSE "AKIA") @@
    ("aws_secret_access_key" :>
        IF kept THEN Get(existing_config, "aws_secret_access_key", "")
        ELSE "secret") @@
    ("vpc_cidr" :> Get(existing_config, "vpc_cidr", "10.0.0.0/16")) @@
    ("filespace_domain" :>
        IF answers.domain = ""
        THEN Get(existing_config, "filespace_domain", "filespace.domain")
        ELSE answers.domain) @@
    ("filespace_user" :> "user") @@
    ("filespace_password" :> answers.password) @@
    ("mount_point" :> Get(existing_config, "mount_point", "L:")) @@
    ("auto_configure_lucidlink" :>
        Get(existing_config, "auto_configure_lucidlink", "yes")) @@
    ("instance_type" :> answers.gpu_instance_types[1]) @@
    ("instance_count" :> Min(Max(answers.count, 1), 10)) @@
    ("root_volume_size" :> Get(existing_config, "root_volume_size", 100)) @@
    ("ssh_key_name" :> Get(existing_config, "ssh_key_name", ""))

\* validate_config finds no error. Of the values the wizard can hold, the
\* regular expressions match the domains, the mount point, the instance
\* type and the CIDR block listed here.
validate_config(cfg) ==
    /\ cfg["filespace_domain"] \in {"fs.domain", "filespace.domain"}
    /\ cfg["mount_point"] \in {"L:"}
    /\ cfg["instance_count"] >= 1 /\ cfg["instance_count"] <= 10
    /\ cfg["instance_type"] \in {"g4dn.xlarge"}
    /\ cfg["root_volume_size"] >= 30 /\ cfg["root_volume_size"] <= 1000
    /\ cfg["vpc_cidr"] \in {"10.0.0.0/16"}
    /\ Has(cfg, "filespace_user")
    /\ Has(cfg, "filespace_password")

\* The configuration the wizard leaves for a first run with valid answers.
DefaultConfig ==
    WizardConfig(EmptyDict,
                 [domain |-> "fs.domain", password |-> "pw", update |-> FALSE,
                  count |-> 1, gpu_instance_types |-> <<"g4dn.xlarge">>])

\* Menu choice 1. load_config() at the start replaces self.config by the
\* stored configuration when the file exists and can be read. Without a
\* GPU instance type, or when the validation fails and the operator does
\* not save anyway, the wizard returns there; otherwise self.config becomes
\* the dict of the answers and save_config stores it, which can fail.
configure_deployment ==
    /\ BeginRun("configure")
    /\ \E readable \in BOOLEAN, update \in BOOLEAN, save_anyway \in BOOLEAN,
          saved \in BOOLEAN, domain \in {"", "fs.domain"},
          password \in {"", "pw"}, count \in {0, 11},
          gpu_instance_types \in {<<>>, <<"g4dn.xlarge">>} :
         LET loaded == client_config_exists /\ readable
             existing_config == IF loaded THEN load_config(client_config_file)
                                ELSE EmptyDict
             answers == [domain |-> domain, password |-> password,
                         update |-> update, count |-> count,
                         gpu_instance_types |-> gpu_instance_types]
         IN IF gpu_instance_types # <<>>
               /\ (validate_config(WizardConfig(existing_config, answers))
                      \/ save_anyway)
            THEN /\ config' = WizardConfig(existing_config, answers)
                 /\ client_config_file' = IF saved THEN save_config(config')
                                          ELSE client_config_file
                 /\ client_config_exists' = (saved \/ client_config_exists)
            ELSE /\ config' = IF loaded THEN existing_config ELSE config
                 /\ UNCHANGED <<client_config_file, client_config_exists>>
    /\ pc' = "done"
    /\ UNCHANGED <<instance_ids, public_ips, dcv_password, shared_password,
                   retrieved, passwords, idx, ssm_ready>>
    /\ UNCHANGED <<auto_approve, steps>>
    /\ UNCHANGED <<envVars, fileVars, waitVars, ssmVars, gpVars, dcvVars,
                   startVars>>

\* ----------------------------------------------------- menu and process
\* "Press Enter to continue": the operation returns to the main menu, its
\* locals and the log of its steps are gone. At the top of the menu loop a
\* configuration that is empty is loaded again from its file, which leaves
\* it empty when the file cannot be read.
show_main_menu ==
    /\ pc = "done"
    /\ pc' = "menu"
    /\ LocalsIdle
    /\ HistoryIdle
    /\ record_writes' = <<>>
    /\ running_instances' = <<>>
    /\ stopped_instances' = <<>>
    /\ read_password' = None
    /\ steps' = <<>>
    /\ \E readable \in BOOLEAN :
         config' = IF config = EmptyDict /\ client_config_exists /\ readable
                   THEN load_config(client_config_file)
                   ELSE config
    /\ UNCHANGED <<op, run, exit_pc>>
    /\ UNCHANGED <<ec2_instances, auto_approve, client_config_file,
                   client_config_exists>>
    /\ UNCHANGED <<envVars, fileVars, waitVars, ssmVars, gpVars, dcvVars>>

\* The operator interrupts the process (run() turns KeyboardInterrupt into
\* sys.exit): the files stay as they are, everything in memory is gone.
KeyboardInterrupt ==
    /\ pc \notin {"exited", "none"}
    /\ pc' = "exited"
    /\ exit_pc' = pc
    /\ LocalsIdle
    /\ WaitIdle
    /\ SsmIdle
    /\ HistoryIdle
    /\ UNCHANGED <<op, run, record_writes>>
    /\ UNCHANGED <<envVars, fileVars, gpVars, opsVars>>

\* ------------------------------------------------------- specifications
FramesAtRest ==
    /\ instance_ids = <<>> /\ public_ips = <<>>
    /\ dcv_password = None /\ shared_password = None /\ retrieved = None
    /\ passwords = EmptyDict /\ idx = 0 /\ ssm_ready = EmptyDict
    /\ w_pc = "idle" /\ w_instance_ids = <<>> /\ max_checks = 0
    /\ check_num = 0 /\ w_idx = 0 /\ w_ready_instances = EmptyDict
    /\ all_ready = TRUE /\ w_asked = 0 /\ timeout_minutes = 0
    /\ generated = <<>> /\ sent = <<>> /\ calls = <<>> /\ scripts = <<>>
    /\ applied = {}
    /\ record_writes = <<>> /\ exit_pc = "none"
    /\ op = "none" /\ run = 0
    /\ passwords_file = NoFile
    /\ dcv_files = [n \in Names |-> NoDcv]

SsmAtRest ==
    /\ s_pc = "idle" /\ s_instance = "" /\ s_password = None /\ attempt = 0
    /\ s_ret = None /\ s_reason = "none" /\ s_polls = 0 /\ s_sleeps = 0
    /\ s_last = NoResponse

GpAtRest ==
    /\ gp_pc = "idle" /\ gp_length = 0 /\ gp_sample = <<>> /\ gp_password = <<>>

NoCall == [instance_ip |-> "", instance_name |-> <<>>,
           username |-> None, password |-> None]

\* The variables of the other operations at rest, under a configuration
\* as save_config stored it; no file when there is no configuration.
OpsAtRest(cfg) ==
    /\ dcv_call = NoCall /\ dcv_before = NoDcv
    /\ ec2_instances = <<>> /\ running_instances = <<>>
    /\ stopped_instances = <<>> /\ read_password = None
    /\ auto_approve = FALSE /\ steps = <<>>
    /\ config = cfg
    /\ client_config_file = save_config(cfg)
    /\ client_config_exists = (cfg # EmptyDict)

\* The wizard at its main menu, configured, nothing else written yet.
Init ==
    /\ outputs \in ReachableOutputs
    /\ status_answers = <<>> /\ invocation_answers = <<>>
    /\ pc = "menu"
    /\ FramesAtRest
    /\ SsmAtRest
    /\ OpsAtRest(DefaultConfig)
    /\ GpAtRest

WaitStep ==
    \/ wait_next_check
    \/ wait_skip_ready
    \/ wait_check_status
    \/ wait_round_end
    \/ wait_return

SsmStep ==
    \/ ssm_setup_raises
    \/ ssm_send_command
    \/ ssm_sleep
    \/ ssm_timed_out
    \/ ssm_get_command_invocation

Next ==
    \/ regenerate_connection_files
    \/ regenerate_partition
    \/ regenerate_dispatch
    \/ regenerate_skip
    \/ regenerate_dispatch_returned
    \/ regenerate_generate_dcv_files
    \/ regenerate_save_passwords
    \/ deploy_infrastructure
    \/ deploy_save_dcv_password
    \/ deploy_run_script
    \/ deploy_generate_dcv_files
    \/ deploy_retrieve_password
    \/ deploy_retrieved_dcv_files
    \/ deploy_wait_for_ssm
    \/ deploy_partition
    \/ deploy_dispatch
    \/ deploy_skip
    \/ deploy_dispatch_returned
    \/ deploy_save_passwords
    \/ deploy_update_dcv_files
    \/ show_main_menu
    \/ KeyboardInterrupt
    \/ WaitStep
    \/ SsmStep

Spec == Init /\ [][Next]_vars

\* generate_secure_password alone: a length and the string the uniform
\* sampling step produced, then the patching steps and the return.
generate_secure_password_returns ==
    /\ gp_pc = "sampled"
    /\ \E u \in UpperChars, l \in LowerChars, d \in DigitChars :
         gp_password' = generate_secure_password(gp_sample, u, l, d)
    /\ gp_pc' = "returned"
    /\ UNCHANGED <<gp_length, gp_sample>>
    /\ UNCHANGED <<envVars, fileVars, batchVars, waitVars, ssmVars, histVars,
                   opsVars>>

NoOutputs == [present |-> FALSE, instance_ids |-> <<>>, public_ips |-> <<>>]

InitPw ==
    /\ outputs = NoOutputs
    /\ status_answers = <<>> /\ invocation_answers = <<>>
    /\ pc = "none"
    /\ FramesAtRest
    /\ SsmAtRest
    /\ OpsAtRest(EmptyDict)
    /\ gp_pc = "sampled"
    /\ gp_length \in Lengths
    /\ gp_sample \in SamplesOfLen(gp_length)
    /\ gp_password = <<>>

NextPw == generate_secure_password_returns

SpecPw == InitPw /\ [][NextPw]_vars

\* The answers scripted for the first polls of a dispatch: nothing,
\* InvocationDoesNotExist k times and then Success, or an unrecognised
\* Status max_attempts times.
NotRegisteredThenSuccess(k) ==
    Fill([kind |-> "InvocationDoesNotExist", Status |-> ""], k)
        \o <<[kind |-> "result", Status |-> "Success"]>>

\* max_attempts answers with a Status the code has no branch for.
UnrecognisedThroughout ==
    Fill([kind |-> "result", Status |-> "Cancelling"], max_attempts)

InvocationScripts ==
    {<<>>, UnrecognisedThroughout} \cup
    { NotRegisteredThenSuccess(k) :
        k \in (1..ScriptLen) \cup {max_attempts - 1, max_attempts} }

\* set_windows_password_via_ssm alone: one call, for one instance, with a
\* password or with None.  The code is single-threaded and every step of it
\* returns, so the call keeps taking steps until it has returned.
InitDispatch ==
    /\ outputs = NoOutputs
    /\ status_answers = <<>>
    /\ invocation_answers \in InvocationScripts
    /\ pc = "none"
    /\ instance_ids = <<>> /\ public_ips = <<>>
    /\ dcv_password = None /\ shared_password = None /\ retrieved = None
    /\ passwords = EmptyDict /\ idx = 0 /\ ssm_ready = EmptyDict
    /\ w_pc = "idle" /\ w_instance_ids = <<>> /\ max_checks = 0
    /\ check_num = 0 /\ w_idx = 0 /\ w_ready_instances = EmptyDict
    /\ all_ready = TRUE /\ w_asked = 0 /\ timeout_minutes = 0
    /\ generated = <<>> /\ sent = <<>> /\ scripts = <<>> /\ applied = {}
    /\ record_writes = <<>> /\ exit_pc = "none"
    /\ op = "none" /\ run = 0
    /\ passwords_file = NoFile
    /\ dcv_files = [n \in Names |-> NoDcv]
    /\ GpAtRest
    /\ OpsAtRest(EmptyDict)
    /\ s_pc = "call"
    /\ s_instance \in { AllIds[i] : i \in 1..MaxInstances }
    /\ s_password \in GeneratedPasswords \cup {None}
    /\ calls = <<s_instance>>
    /\ attempt = 0 /\ s_ret = None /\ s_reason = "none"
    /\ s_polls = 0 /\ s_sleeps = 0 /\ s_last = NoResponse

NextDispatch == SsmStep

SpecDispatch == InitDispatch /\ [][NextDispatch]_vars /\ WF_vars(NextDispatch)

\* The answers scripted for the first status queries of a wait: every
\* sequence of at most ScriptLen answers that raise or report Online.
ScriptedStatus ==
    { [kind |-> "raise", PingStatus |-> ""],
      [kind |-> "info", PingStatus |-> "Online"] }

StatusScripts ==
    UNION { [1..n -> ScriptedStatus] : n \in 0..ScriptLen }

\* wait_for_ssm_ready alone: one call, for a list of distinct instance IDs
\* and a timeout.  Every step of the function returns, so the call keeps
\* taking steps until it has returned.
InitWait ==
    /\ outputs = NoOutputs
    /\ status_answers \in StatusScripts
    /\ invocation_answers = <<>>
    /\ pc = "none"
    /\ instance_ids = <<>> /\ public_ips = <<>>
    /\ dcv_password = None /\ shared_password = None /\ retrieved = None
    /\ passwords = EmptyDict /\ idx = 0 /\ ssm_ready = EmptyDict
    /\ generated = <<>> /\ sent = <<>> /\ calls = <<>> /\ scripts = <<>>
    /\ applied = {}
    /\ record_writes = <<>> /\ exit_pc = "none"
    /\ op = "none" /\ run = 0
    /\ passwords_file = NoFile
    /\ dcv_files = [n \in Names |-> NoDcv]
    /\ SsmAtRest
    /\ OpsAtRest(EmptyDict)
    /\ GpAtRest
    /\ w_pc = "for"
    /\ w_instance_ids \in { SubSeq(AllIds, 1, n) : n \in 0..MaxInstances }
    /\ timeout_minutes \in (0..MaxTimeout) \cup {BatchTimeoutMinutes}
    /\ max_checks = MaxChecks(timeout_minutes)
    /\ check_num = 0 /\ w_idx = 0 /\ w_ready_instances = EmptyDict
    /\ all_ready = TRUE /\ w_asked = 0

NextWait == WaitStep

SpecWait == InitWait /\ [][NextWait]_vars /\ WF_vars(NextWait)

\* ------------------------------------------------------ generate_dcv_file
\* Arguments a call of generate_dcv_file is given.
DcvIps == {AllIps[1], AllIps[2]}

Usernames == {None, <<"Administrator">>}

DcvPasswords == {None} \cup GeneratedPasswords

DcvNames == { instance_name(i) : i \in 1..MaxInstances }

\* Variant of generate_dcv_file: a field the call does not pass is taken
\* over from the descriptor that is already there.
generate_dcv_file_keeps_fields(instance_ip, name, username, password) ==
    /\ dcv_call' = [instance_ip |-> instance_ip, instance_name |-> name,
                    username |-> username, password |-> password]
    /\ dcv_before' = dcv_files[name]
    /\ dcv_files' =
         [dcv_files EXCEPT ![name] =
            dcv_content(instance_ip,
                        IF Truthy(username) THEN username ELSE dcv_files[name].user,
                        IF Truthy(password) THEN password
                        ELSE dcv_files[name].password)]
    /\ UNCHANGED <<envVars, passwords_file, batchVars, waitVars, ssmVars,
                   histVars, gpVars, startVars, tfVars>>

\* generate_dcv_file(instance_ip, instance_name, username, password): the
\* content is built from the arguments and <instance_name>.dcv is opened
\* with 'w' and written.
generate_dcv_file(instance_ip, name, username, password) ==
    /\ dcv_call' = [instance_ip |-> instance_ip, instance_name |-> name,
                    username |-> username, password |-> password]
    /\ dcv_before' = dcv_files[name]
    /\ dcv_files' =
         [dcv_files EXCEPT ![name] = dcv_content(instance_ip, username, password)]
    /\ UNCHANGED <<envVars, passwords_file, batchVars, waitVars, ssmVars,
                   histVars, gpVars, startVars, tfVars>>

generate_dcv_file_call ==
    \E instance_ip \in DcvIps, name \in DcvNames,
       username \in Usernames, password \in DcvPasswords :
        generate_dcv_file(instance_ip, name, username, password)

\* generate_dcv_file alone: any number of calls, with any arguments, on a
\* directory that starts without descriptors.
InitDcv ==
    /\ outputs = NoOutputs
    /\ status_answers = <<>> /\ invocation_answers = <<>>
    /\ pc = "none"
    /\ FramesAtRest
    /\ SsmAtRest
    /\ OpsAtRest(EmptyDict)
    /\ GpAtRest

NextDcv == generate_dcv_file_call

SpecDcv == InitDcv /\ [][NextDcv]_vars

\* ------------------------------------------- the text of PASSWORDS.txt
\* The literal lines of the record, character by character.
Literals ==
    [
     title |->
       <<"W", "i", "n", "d", "o", "w", "s", " ", "A", "d", "m", "i", "n", "i",
         "s", "t", "r", "a", "t", "o", "r", " ", "P", "a", "s", "s", "w", "o",
         "r", "d", "\n">>,
     title_plural |->
       <<"W", "i", "n", "d", "o", "w", "s", " ", "A", "d", "m", "i", "n", "i",
         "s", "t", "r", "a", "t", "o", "r", " ", "P", "a", "s", "s", "w", "o",
         "r", "d", "s", "\n">>,
     short_rule |->
       <<"=", "=", "=", "=", "=", "=", "=", "=", "=", "=", "=", "=", "=", "=",
         "=", "=", "=", "=", "=", "=", "=", "=", "=", "=", "=", "=", "=", "=",
         "=", "=", "=", "=", "=", "\n">>,
     important |->
       <<"I", "M", "P", "O", "R", "T", "A", "N", "T", ":", " ", "K", "e", "e",
         "p", " ", "t", "h", "i", "s", " ", "f", "i", "l", "e", " ", "s", "e",
         "c", "u", "r", "e", "!", "\n">>,
     one_password |->
       <<"O", "N", "E", " ", "P", "A", "S", "S", "W", "O", "R", "D", " ", "F",
         "O", "R", " ", "A", "L", "L", " ", "I", "N", "S", "T", "A", "N", "C",
         "E", "S", ":", "\n">>,
     works_for |->
       <<"T", "h", "i", "s", " ", "p", "a", "s", "s", "w", "o", "r", "d", " ",
         "w", "o", "r", "k", "s", " ", "f", "o", "r", ":", "\n">>,
     works_for_all |->
       <<"T", "h", "i", "s", " ", "p", "a", "s", "s", "w", "o", "r", "d", " ",
         "w", "o", "r", "k", "s", " ", "f", "o", "r", " ", "a", "l", "l", " ",
         "i", "n", "s", "t", "a", "n", "c", "e", "s", ":", "\n">>,
     connection_info |->
       <<"C", "o", "n", "n", "e", "c", "t", "i", "o", "n", " ", "I", "n", "f",
         "o", ":", "\n">>,
     username |->
       <<" ", " ", "U", "s", "e", "r", "n", "a", "m", "e", ":", " ", "A", "d",
         "m", "i", "n", "i", "s", "t", "r", "a", "t", "o", "r", "\n">>,
     same_password |->
       <<" ", " ", "(", "S", "a", "m", "e", " ", "p", "a", "s", "s", "w", "o",
         "r", "d", " ", "f", "o", "r", " ", "a", "l", "l", " ", "i", "n", "s",
         "t", "a", "n", "c", "e", "s", ")", "\n">>,
     password_set |->
       <<" ", "P", "a", "s", "s", "w", "o", "r", "d", " ", "s", "e", "t">>,
     not_set |->
       <<" ", "N", "o", "t", " ", "s", "e", "t">>
    ]

\* "Password:"
PasswordLabel ==
    <<"P", "a", "s", "s", "w", "o", "r", "d", ":">>

\* The characters of an instance ID or an address.
Text(s) ==
    CASE s = "i-1" -> <<"i", "-", "1">>
      [] s = "i-2" -> <<"i", "-", "2">>
      [] s = "i-3" -> <<"i", "-", "3">>
      [] s = "i-4" -> <<"i", "-", "4">>
      [] s = "10.0.0.1" -> <<"1", "0", ".", "0", ".", "0", ".", "1">>
      [] s = "10.0.0.2" -> <<"1", "0", ".", "0", ".", "0", ".", "2">>
      [] s = "10.0.0.3" -> <<"1", "0", ".", "0", ".", "0", ".", "3">>
      [] s = "10.0.0.4" -> <<"1", "0", ".", "0", ".", "0", ".", "4">>
      [] s = "N/A" -> <<"N", "/", "A">>

\* str(i) for a position in a list
str(i) == << <<"1", "2", "3", "4", "5", "6", "7", "8", "9">>[i] >>

EmptyLine == <<"\n">>

\* "=" * 60 + "\n"
LongRule == Fill("=", 60) \o EmptyLine

\* f"  Password: {password}\n" and f"Password: {password}\n"
IndentedPasswordLine(pw) == <<" ", " ">> \o PasswordLabel \o <<" ">> \o pw \o EmptyLine

PlainPasswordLine(pw) == PasswordLabel \o <<" ">> \o pw \o EmptyLine

\* f"  {idx}. {inst_id} ({public_ip}) - {status}\n": the marks U+2713 and
\* U+2717 are one character each.
StatusText(status) ==
    IF status = SetStatus THEN <<"U+2713">> \o Literals.password_set
    ELSE <<"U+2717">> \o Literals.not_set

StatusLine(i, line) ==
    <<" ", " ">> \o str(i) \o <<".", " ">> \o Text(line.instance_id) \o <<" ", "(">>
        \o Text(line.public_ip) \o <<")", " ", "-", " ">>
        \o StatusText(line.status) \o EmptyLine

\* f"  {idx}. {inst_id} ({public_ip})\n"
PlainLine(i, line) ==
    <<" ", " ">> \o str(i) \o <<".", " ">> \o Text(line.instance_id) \o <<" ", "(">>
        \o Text(line.public_ip) \o <<")">> \o EmptyLine

\* The lines of PASSWORDS.txt as the three batch writers write them
\* (note) and as the writer after get_windows_password does.
record_text(file) ==
    IF file.note
    THEN <<Literals.title, LongRule, EmptyLine, Literals.important, EmptyLine,
           Literals.one_password, IndentedPasswordLine(file.password), EmptyLine,
           Literals.works_for>>
         \o [i \in 1..Len(file.lines) |-> StatusLine(i, file.lines[i])]
         \o <<EmptyLine, Literals.connection_info, Literals.username,
              IndentedPasswordLine(file.password), Literals.same_password>>
    ELSE <<Literals.title_plural, Literals.short_rule, EmptyLine,
           PlainPasswordLine(file.password), EmptyLine, Literals.works_for_all>>
         \o [i \in 1..Len(file.lines) |-> PlainLine(i, file.lines[i])]
         \o <<EmptyLine, Literals.connection_info, Literals.username,
              IndentedPasswordLine(file.password)>>

\* Python str.strip(), str.startswith() and str.split(sep, 1)[1]. strip()
\* without an argument removes every character str.isspace() holds for:
\* the ASCII ones U+0009..U+000D, U+001C..U+001F and the space, and the
\* Unicode ones; a character with no escape is written by its code point.
Whitespace ==
    {" ", "\t", "\n", "U+000B", "\f", "\r",
     "U+001C", "U+001D", "U+001E", "U+001F", "U+0085", "U+00A0", "U+1680",
     "U+2000", "U+2001", "U+2002", "U+2003", "U+2004", "U+2005", "U+2006",
     "U+2007", "U+2008", "U+2009", "U+200A", "U+2028", "U+2029", "U+202F",
     "U+205F", "U+3000"}

RECURSIVE lstrip(_)
lstrip(s) ==
    IF s # <<>> /\ Head(s) \in Whitespace THEN lstrip(Tail(s)) ELSE s

RECURSIVE rstrip(_)
rstrip(s) ==
    IF s # <<>> /\ s[Len(s)] \in Whitespace THEN rstrip(DropLast(s, 1)) ELSE s

strip(s) == rstrip(lstrip(s))

startswith(s, prefix) ==
    Len(s) >= Len(prefix) /\ SubSeq(s, 1, Len(prefix)) = prefix

RECURSIVE AfterFirst(_, _)
AfterFirst(s, sep) ==
    IF s = <<>> THEN <<>>
    ELSE IF Head(s) = sep THEN Tail(s)
    ELSE AfterFirst(Tail(s), sep)

\* Variant of read_password_line: everything after the label's colon is
\* taken as it stands.
read_password_line_unstripped(line) == AfterFirst(line, ":")

\* `password = line.split(":", 1)[1].strip()`
read_password_line(line) == strip(AfterFirst(line, ":"))

\* The loop over the lines of the file: the first line whose stripped text
\* starts with "Password:" gives the password; None when there is none.
RECURSIVE read_password_from(_)
read_password_from(lines) ==
    IF lines = <<>> THEN None
    ELSE IF startswith(strip(Head(lines)), PasswordLabel)
    THEN read_password_line(Head(lines))
    ELSE read_password_from(Tail(lines))

\* --------------------------------------------- the instances, as EC2 has them
\* The public address an instance has before it is stopped is AllIps; the
\* one it is given when it is started again:
NewIps == <<"10.0.1.1", "10.0.1.2", "10.0.1.3", "10.0.1.4">>

IdIndex(id) == CHOOSE i \in 1..Len(AllIds) : AllIds[i] = id

\* ec2.start_instances and the instance_running waiter: a stopped instance
\* runs again, under a new public address.
Started(instances) ==
    [i \in 1..Len(instances) |->
        IF instances[i].State = "stopped"
        THEN [InstanceId |-> instances[i].InstanceId, State |-> "running",
              PublicIpAddress |-> NewIps[IdIndex(instances[i].InstanceId)]]
        ELSE instances[i]]

\* The instances of the response whose state is 'stopped'.
StoppedInstances(instances) ==
    LET stopped == SelectSeq(instances, LAMBDA inst : inst.State = "stopped")
    IN [i \in 1..Len(stopped) |-> stopped[i].InstanceId]

\* `instance.get('PublicIpAddress', 'N/A')` for every instance of the
\* response, in the order of the response.
PublicIpsOf(instances) ==
    [i \in 1..Len(instances) |->
        IF instances[i].PublicIpAddress = "" THEN "N/A"
        ELSE instances[i].PublicIpAddress]

\* ----------------------------------------------------- stop_all_instances
\* The instances of the response whose state is 'running'.
RunningInstances(instances) ==
    LET running == SelectSeq(instances, LAMBDA inst : inst.State = "running")
    IN [i \in 1..Len(running) |-> running[i].InstanceId]

\* The instance_stopped waiter returned for these instances: they are
\* stopped and have no public address any more.
Stopped(instances, ids) ==
    [i \in 1..Len(instances) |->
        IF \E k \in 1..Len(ids) : ids[k] = instances[i].InstanceId
        THEN [InstanceId |-> instances[i].InstanceId, State |-> "stopped",
              PublicIpAddress |-> ""]
        ELSE instances[i]]

\* Outputs, then "No deployment found" or "No instances found".
stop_all_instances ==
    /\ BeginRun("stop")
    /\ IF ~outputs.present \/ outputs.instance_ids = <<>>
       THEN /\ pc' = "done"
            /\ UNCHANGED instance_ids
       ELSE /\ instance_ids' = outputs.instance_ids
            /\ pc' = "sp_describe"
    /\ UNCHANGED <<public_ips, dcv_password, shared_password, retrieved,
                   passwords, idx, ssm_ready>>
    /\ UNCHANGED <<envVars, fileVars, waitVars, ssmVars, gpVars, opsVars>>

\* "Check current status": as in start_all_instances the client is built
\* before the `try`; describe_instances answers or raises; without a
\* running instance, or when the operator declines, nothing is stopped.
stop_describe_instances ==
    /\ pc = "sp_describe"
    /\ \E outcome \in {"client_raises", "describe_raises", "answered"},
          proceed \in BOOLEAN :
         CASE outcome = "client_raises" ->
                /\ pc' = "exited"
                /\ exit_pc' = pc
                /\ UNCHANGED running_instances
           [] outcome = "describe_raises" ->
                /\ pc' = "done"
                /\ UNCHANGED <<running_instances, exit_pc>>
           [] outcome = "answered" ->
                /\ running_instances' = RunningInstances(ec2_instances)
                /\ pc' = IF RunningInstances(ec2_instances) # <<>> /\ proceed
                         THEN "sp_stop" ELSE "done"
                /\ UNCHANGED exit_pc
    /\ UNCHANGED <<op, run, instance_ids, public_ips, dcv_password,
                   shared_password, retrieved, passwords, idx, ssm_ready>>
    /\ UNCHANGED <<ec2_instances, stopped_instances, read_password>>
    /\ UNCHANGED <<generated, sent, calls, scripts, applied, record_writes>>
    /\ UNCHANGED <<envVars, fileVars, waitVars, ssmVars, gpVars,
                   dcvVars, tfVars>>

\* "Initiating graceful Windows shutdown...": the shutdown command is sent
\* and the instance_stopped waiter returns ("graceful"); the waiter raises
\* and stop_instances with a second wait follows ("forced"); the command
\* cannot be sent and stop_instances with a wait follows ("direct"). When
\* stop_instances or the wait after it raises, the outer `except` ends the
\* operation, with the instances stopped or not.
stop_stop_instances ==
    /\ pc = "sp_stop"
    /\ \E outcome \in {"graceful", "forced", "direct", "raises"},
          stopped \in BOOLEAN :
         ec2_instances' = IF outcome = "raises" /\ ~stopped THEN ec2_instances
                          ELSE Stopped(ec2_instances, running_instances)
    /\ pc' = "done"
    /\ UNCHANGED <<op, run, instance_ids, public_ips, dcv_password,
                   shared_password, retrieved, passwords, idx, ssm_ready>>
    /\ UNCHANGED <<running_instances, stopped_instances, read_password>>
    /\ UNCHANGED <<envVars, fileVars, waitVars, ssmVars, histVars, gpVars,
                   dcvVars, tfVars>>

\* ---------------------------------------------------- start_all_instances
\* Outputs, then "No deployment found" or "No instances found".
start_all_instances ==
    /\ BeginRun("start")
    /\ IF ~outputs.present \/ outputs.instance_ids = <<>>
       THEN /\ pc' = "done"
            /\ UNCHANGED instance_ids
       ELSE /\ instance_ids' = outputs.instance_ids
            /\ pc' = "st_describe"
    /\ UNCHANGED <<public_ips, dcv_password, shared_password, retrieved,
                   passwords, idx, ssm_ready>>
    /\ UNCHANGED <<envVars, fileVars, waitVars, ssmVars, gpVars, opsVars>>

\* "Check current status". `import boto3` and boto3.client('ec2') stand
\* before the `try`: when one of them raises, the exception leaves the
\* function and the menu, and run() ends the process. Inside the `try`,
\* describe_instances answers or raises; without a stopped instance, or
\* when the operator declines, nothing is started.
start_describe_instances ==
    /\ pc = "st_describe"
    /\ \E outcome \in {"client_raises", "describe_raises", "answered"},
          proceed \in BOOLEAN :
         CASE outcome = "client_raises" ->
                /\ pc' = "exited"
                /\ exit_pc' = pc
                /\ UNCHANGED stopped_instances
           [] outcome = "describe_raises" ->
                /\ pc' = "done"
                /\ UNCHANGED <<stopped_instances, exit_pc>>
           [] outcome = "answered" ->
                /\ stopped_instances' = StoppedInstances(ec2_instances)
                /\ pc' = IF StoppedInstances(ec2_instances) # <<>> /\ proceed
                         THEN "st_start" ELSE "done"
                /\ UNCHANGED exit_pc
    /\ UNCHANGED <<op, run, instance_ids, public_ips, dcv_password,
                   shared_password, retrieved, passwords, idx, ssm_ready>>
    /\ UNCHANGED <<ec2_instances, running_instances, read_password>>
    /\ UNCHANGED <<generated, sent, calls, scripts, applied, record_writes>>
    /\ UNCHANGED <<envVars, fileVars, waitVars, ssmVars, gpVars,
                   dcvVars, tfVars>>

\* "Starting instances...": start_instances raises, or the instances start
\* and the waiter returns or raises; an exception ends the operation in the
\* outer `except`.
start_start_instances ==
    /\ pc = "st_start"
    /\ \E outcome \in {"started", "start_raises", "waiter_raises"} :
         /\ ec2_instances' = IF outcome = "start_raises" THEN ec2_instances
                             ELSE Started(ec2_instances)
         /\ pc' = IF outcome = "started" THEN "st_ips" ELSE "done"
    /\ UNCHANGED <<op, run, instance_ids, public_ips, dcv_password,
                   shared_password, retrieved, passwords, idx, ssm_ready>>
    /\ UNCHANGED <<running_instances, stopped_instances, read_password>>
    /\ UNCHANGED <<envVars, fileVars, waitVars, ssmVars, histVars, gpVars,
                   dcvVars, tfVars>>

\* "Get NEW public IPs after start": the addresses in the response's order.
start_read_public_ips ==
    /\ pc = "st_ips"
    /\ \E raised \in BOOLEAN :
         IF raised
         THEN /\ pc' = "done"
              /\ UNCHANGED public_ips
         ELSE /\ public_ips' = PublicIpsOf(ec2_instances)
              /\ pc' = "st_password"
    /\ UNCHANGED <<op, run, instance_ids, dcv_password,
                   shared_password, retrieved, passwords, idx, ssm_ready>>
    /\ UNCHANGED <<envVars, fileVars, waitVars, ssmVars, histVars, gpVars,
                   opsVars>>

\* "Try to read existing password from PASSWORDS.txt": an error while
\* reading leaves password = None.
start_read_password ==
    /\ pc = "st_password"
    /\ \E raised \in BOOLEAN :
         read_password' =
            IF passwords_file.exists /\ ~raised
            THEN read_password_from(record_text(passwords_file))
            ELSE None
    /\ pc' = "st_dcv"
    /\ UNCHANGED <<op, run, instance_ids, public_ips, dcv_password,
                   shared_password, retrieved, passwords, idx, ssm_ready>>
    /\ UNCHANGED <<ec2_instances, running_instances, stopped_instances>>
    /\ UNCHANGED <<envVars, fileVars, waitVars, ssmVars, histVars, gpVars,
                   dcvVars, tfVars>>

\* "Regenerate DCV files with new IPs"
start_regenerate_dcv_files ==
    /\ pc = "st_dcv"
    /\ dcv_files' = generate_dcv_files(dcv_files, instance_ids, public_ips,
                                       read_password)
    /\ pc' = "done"
    /\ UNCHANGED <<op, run, instance_ids, public_ips, dcv_password,
                   shared_password, retrieved, passwords, idx, ssm_ready>>
    /\ UNCHANGED <<envVars, passwords_file, waitVars, ssmVars, histVars, gpVars,
                   opsVars>>

\* Passwords generate_secure_password() returns that begin with each kind
\* of character, besides those of the batch samples.
StartPasswords ==
    GeneratedPasswords \cup
    { generate_secure_password(Fill(c, DefaultLength - 3) \o <<"a", "9", "*">>,
                               u, "a", "0") : c \in alphabet, u \in UpperChars }

\* The dicts a dispatch loop can leave for a list of IDs: every instance
\* Applied, or the first one only.
AppliedDicts(ids, pw) ==
    IF ids = <<>> THEN {}
    ELSE { [id \in { ids[i] : i \in 1..Len(ids) } |-> pw], [id \in {ids[1]} |-> pw] }

\* What PASSWORDS.txt can hold when the operation starts: nothing, or the
\* record one of the four writers left for these outputs.
StartRecords(o) ==
    {NoFile}
    \cup { retrieved_record(pw, o.instance_ids, o.public_ips) :
              pw \in IF o.instance_ids = <<>> THEN {} ELSE RetrievedPasswords }
    \cup { early_record(pw, o.instance_ids, o.public_ips) : pw \in StartPasswords }
    \cup UNION { { deploy_record(pw, o.instance_ids, o.public_ips, pws) :
                    pws \in AppliedDicts(o.instance_ids, pw) } : pw \in StartPasswords }
    \cup UNION { { regenerate_record(pw, o.instance_ids, o.public_ips, pws) :
                    pws \in IF o.public_ips = <<>> THEN {}
                            ELSE AppliedDicts(o.instance_ids, pw) } :
                  pw \in StartPasswords }

\* The response of describe_instances when the menu is first shown: the
\* instances of the outputs, in the order of the outputs or in the reverse
\* order, each running under its address or terminated. (A stopped
\* instance is one stop_all_instances stopped.)
Ec2Responses(ids) ==
    LET Orders == { [i \in 1..Len(ids) |-> i],
                    [i \in 1..Len(ids) |-> Len(ids) + 1 - i] }
    IN { [i \in 1..Len(ids) |->
            [InstanceId |-> ids[p[i]], State |-> st[i],
             PublicIpAddress |-> IF st[i] = "running"
                                 THEN AllIps[IdIndex(ids[p[i]])] ELSE ""]] :
           p \in Orders,
           st \in [1..Len(ids) -> {"running", "terminated"}] }

\* stop_all_instances and start_all_instances, chosen at the main menu:
\* the outputs of a deployment, the record and the descriptors an earlier
\* batch left, and the instances as EC2 reports them.
InitStart ==
    /\ outputs \in ReachableOutputs
    /\ status_answers = <<>> /\ invocation_answers = <<>>
    /\ pc = "menu"
    /\ instance_ids = <<>> /\ public_ips = <<>>
    /\ dcv_password = None /\ shared_password = None /\ retrieved = None
    /\ passwords = EmptyDict /\ idx = 0 /\ ssm_ready = EmptyDict
    /\ w_pc = "idle" /\ w_instance_ids = <<>> /\ max_checks = 0
    /\ check_num = 0 /\ w_idx = 0 /\ w_ready_instances = EmptyDict
    /\ all_ready = TRUE /\ w_asked = 0 /\ timeout_minutes = 0
    /\ generated = <<>> /\ sent = <<>> /\ calls = <<>> /\ scripts = <<>>
    /\ applied = {}
    /\ record_writes = <<>> /\ exit_pc = "none"
    /\ op = "none" /\ run = 0
    /\ SsmAtRest
    /\ GpAtRest
    /\ dcv_call = NoCall /\ dcv_before = NoDcv
    /\ auto_approve = FALSE /\ steps = <<>>
    /\ config = DefaultConfig
    /\ client_config_file = save_config(config)
    /\ client_config_exists = TRUE
    /\ passwords_file \in StartRecords(outputs)
    /\ dcv_files \in
         { [n \in Names |-> NoDcv],
           generate_dcv_files([n \in Names |-> NoDcv], outputs.instance_ids,
                              outputs.public_ips, passwords_file.password) }
    /\ ec2_instances \in Ec2Responses(outputs.instance_ids)
    /\ running_instances = <<>> /\ stopped_instances = <<>>
    /\ read_password = None

NextStart ==
    \/ stop_all_instances
    \/ stop_describe_instances
    \/ stop_stop_instances
    \/ start_all_instances
    \/ start_describe_instances
    \/ start_start_instances
    \/ start_read_public_ips
    \/ start_read_password
    \/ start_regenerate_dcv_files
    \/ show_main_menu

SpecStart == InitStart /\ [][NextStart]_vars

\* --------------- deploy_infrastructure step by step, destroy_infrastructure
\* Configurations the wizard can hold: none, or one with or without the
\* AWS credential keys, the region and the filespace settings.
Configs ==
    { (IF cred THEN ("aws_access_key_id" :> "AKIA") @@
                    ("aws_secret_access_key" :> "secret")
       ELSE EmptyDict) @@
      (IF reg THEN ("region" :> "us-east-1") ELSE EmptyDict) @@
      (CASE fs = "set" -> ("filespace_domain" :> "fs.domain") @@
                          ("filespace_password" :> "pw")
         [] fs = "empty" -> ("filespace_domain" :> "")
         [] OTHER -> EmptyDict) @@
      (IF fs = "none" /\ ~cred /\ ~reg THEN EmptyDict
       ELSE ("instance_type" :> "t3.large")) :
        cred \in BOOLEAN, reg \in BOOLEAN, fs \in {"none", "empty", "set"} }

\* The confirmations and commands of deploy_infrastructure, in the order of
\* the code.
DeploySteps ==
    <<"Proceed with deployment?", "write_terraform_files", "init", "validate",
      "plan", "Apply these changes?", "apply">>

Confirmations == {"Proceed with deployment?", "Apply these changes?"}

Log(name, outcome) == Append(steps, [step |-> name, outcome |-> outcome])

\* `if not self.config:` "No configuration loaded".
deploy_infrastructure_begin ==
    /\ BeginRun("deploy")
    /\ pc' = IF config = EmptyDict THEN "done" ELSE "t_deploy"
    /\ UNCHANGED <<instance_ids, public_ips, dcv_password, shared_password,
                   retrieved, passwords, idx, ssm_ready>>
    /\ UNCHANGED <<envVars, fileVars, waitVars, ssmVars, gpVars, opsVars>>

\* Variant of deploy_step: a failed `terraform validate` does not end the run.
deploy_step_validate_ignored ==
    /\ pc = "t_deploy"
    /\ LET name == DeploySteps[Len(steps) + 1] IN
       \E ok \in BOOLEAN :
         LET outcome == IF name \in Confirmations /\ auto_approve THEN "skipped"
                        ELSE IF ok THEN "ok" ELSE "failed" IN
         /\ steps' = Log(name, outcome)
         /\ IF outcome = "failed" /\ name # "validate"
            THEN /\ pc' = "done"
                 /\ UNCHANGED <<instance_ids, public_ips>>
            ELSE IF Len(steps') < Len(DeploySteps)
            THEN /\ pc' = pc
                 /\ UNCHANGED <<instance_ids, public_ips>>
            ELSE IF outputs.present
            THEN /\ instance_ids' = outputs.instance_ids
                 /\ public_ips' = outputs.public_ips
                 /\ pc' = "d_step6"
            ELSE /\ pc' = "done"
                 /\ UNCHANGED <<instance_ids, public_ips>>
    /\ UNCHANGED <<op, run, dcv_password, shared_password, retrieved,
                   passwords, idx, ssm_ready>>
    /\ UNCHANGED <<auto_approve, config, client_config_file, client_config_exists>>
    /\ UNCHANGED <<envVars, fileVars, waitVars, ssmVars, histVars, gpVars,
                   dcvVars, startVars>>

\* The next confirmation or command of the run: a confirmation is skipped
\* under auto_approve; a declined confirmation, a write_terraform_files
\* that returns False or a command that fails returns from the function.
\* After a successful `apply` the outputs are read and, when there are
\* any, the same call goes on to Step 6 with their instance IDs and
\* public IPs; without outputs it ends.
deploy_step ==
    /\ pc = "t_deploy"
    /\ LET name == DeploySteps[Len(steps) + 1] IN
       \E ok \in BOOLEAN :
         LET outcome == IF name \in Confirmations /\ auto_approve THEN "skipped"
                        ELSE IF ok THEN "ok" ELSE "failed" IN
         /\ steps' = Log(name, outcome)
         /\ IF outcome = "failed"
            THEN /\ pc' = "done"
                 /\ UNCHANGED <<instance_ids, public_ips>>
            ELSE IF Len(steps') < Len(DeploySteps)
            THEN /\ pc' = pc
                 /\ UNCHANGED <<instance_ids, public_ips>>
            ELSE IF outputs.present
            THEN /\ instance_ids' = outputs.instance_ids
                 /\ public_ips' = outputs.public_ips
                 /\ pc' = "d_step6"
            ELSE /\ pc' = "done"
                 /\ UNCHANGED <<instance_ids, public_ips>>
    /\ UNCHANGED <<op, run, dcv_password, shared_password, retrieved,
                   passwords, idx, ssm_ready>>
    /\ UNCHANGED <<auto_approve, config, client_config_file, client_config_exists>>
    /\ UNCHANGED <<envVars, fileVars, waitVars, ssmVars, histVars, gpVars,
                   dcvVars, startVars>>

\* "Check if there's anything to destroy"
destroy_infrastructure ==
    /\ BeginRun("destroy")
    /\ IF ~outputs.present \/ outputs.instance_ids = <<>>
       THEN /\ pc' = "done"
            /\ UNCHANGED instance_ids
       ELSE /\ instance_ids' = outputs.instance_ids
            /\ pc' = "t_confirm"
    /\ UNCHANGED <<public_ips, dcv_password, shared_password, retrieved,
                   passwords, idx, ssm_ready>>
    /\ UNCHANGED <<envVars, fileVars, waitVars, ssmVars, gpVars, opsVars>>

\* "Single confirmation (skip if auto-approve is enabled)"
destroy_confirm ==
    /\ pc = "t_confirm"
    /\ \E yes \in BOOLEAN :
         LET outcome == IF auto_approve THEN "skipped"
                        ELSE IF yes THEN "ok" ELSE "failed" IN
         /\ steps' = Log("Destroy all resources?", outcome)
         /\ pc' = IF outcome = "failed" THEN "done" ELSE "t_destroy"
    /\ UNCHANGED <<op, run, instance_ids, public_ips, dcv_password,
                   shared_password, retrieved, passwords, idx, ssm_ready>>
    /\ UNCHANGED <<auto_approve, config, client_config_file, client_config_exists>>
    /\ UNCHANGED <<envVars, fileVars, waitVars, ssmVars, histVars, gpVars,
                   dcvVars, startVars>>

\* "Run terraform destroy"
destroy_run_terraform ==
    /\ pc = "t_destroy"
    /\ \E ok \in BOOLEAN :
         /\ steps' = Log("destroy", IF ok THEN "ok" ELSE "failed")
         /\ pc' = IF ok THEN "t_clear" ELSE "done"
    /\ UNCHANGED <<op, run, instance_ids, public_ips, dcv_password,
                   shared_password, retrieved, passwords, idx, ssm_ready>>
    /\ UNCHANGED <<auto_approve, config, client_config_file, client_config_exists>>
    /\ UNCHANGED <<envVars, fileVars, waitVars, ssmVars, histVars, gpVars,
                   dcvVars, startVars>>

preserved_keys == {"aws_access_key_id", "aws_secret_access_key", "region"}

\* Variant of destroy_clear_config: the whole configuration is dropped.
destroy_clear_config_drops_all ==
    /\ pc = "t_clear"
    /\ IF Has(config, "filespace_domain")
       THEN \E yes \in BOOLEAN, saved \in BOOLEAN :
              /\ steps' = Log("Clear stored client configuration?",
                              IF yes THEN "ok" ELSE "failed")
              /\ IF yes
                 THEN /\ config' = EmptyDict
                      /\ client_config_file' =
                            IF saved THEN save_config(config')
                            ELSE client_config_file
                      /\ client_config_exists' = (saved \/ client_config_exists)
                 ELSE UNCHANGED <<config, client_config_file, client_config_exists>>
       ELSE UNCHANGED <<steps, config, client_config_file, client_config_exists>>
    /\ pc' = "done"
    /\ UNCHANGED <<op, run, instance_ids, public_ips, dcv_password,
                   shared_password, retrieved, passwords, idx, ssm_ready>>
    /\ UNCHANGED auto_approve
    /\ UNCHANGED <<envVars, fileVars, waitVars, ssmVars, histVars, gpVars,
                   dcvVars, startVars>>

\* "Clear client configuration": asked only when a filespace domain is
\* configured; the new configuration keeps the preserved keys and is saved,
\* which can fail.
destroy_clear_config ==
    /\ pc = "t_clear"
    /\ IF Has(config, "filespace_domain")
       THEN \E yes \in BOOLEAN, saved \in BOOLEAN :
              /\ steps' = Log("Clear stored client configuration?",
                              IF yes THEN "ok" ELSE "failed")
              /\ IF yes
                 THEN /\ config' = [k \in DOMAIN config \cap preserved_keys |->
                                       config[k]]
                      /\ client_config_file' =
                            IF saved THEN save_config(config')
                            ELSE client_config_file
                      /\ client_config_exists' = (saved \/ client_config_exists)
                 ELSE UNCHANGED <<config, client_config_file, client_config_exists>>
       ELSE UNCHANGED <<steps, config, client_config_file, client_config_exists>>
    /\ pc' = "done"
    /\ UNCHANGED <<op, run, instance_ids, public_ips, dcv_password,
                   shared_password, retrieved, passwords, idx, ssm_ready>>
    /\ UNCHANGED auto_approve
    /\ UNCHANGED <<envVars, fileVars, waitVars, ssmVars, histVars, gpVars,
                   dcvVars, startVars>>

\* The wizard and destroy_infrastructure, chosen at
\* the main menu: a configuration as it was loaded from its file (none
\* when there is no file or the file holds none), the auto-approve switch,
\* and the outputs.
InitTerraform ==
    /\ outputs \in ReachableOutputs
    /\ status_answers = <<>> /\ invocation_answers = <<>>
    /\ pc = "menu"
    /\ FramesAtRest
    /\ SsmAtRest
    /\ GpAtRest
    /\ dcv_call = NoCall /\ dcv_before = NoDcv
    /\ ec2_instances = <<>> /\ running_instances = <<>>
    /\ stopped_instances = <<>> /\ read_password = None
    /\ auto_approve \in BOOLEAN
    /\ config \in Configs
    /\ client_config_file = save_config(config)
    /\ client_config_exists \in (IF config = EmptyDict THEN BOOLEAN ELSE {TRUE})
    /\ steps = <<>>

NextTerraform ==
    \/ configure_deployment
    \/ destroy_infrastructure
    \/ destroy_confirm
    \/ destroy_run_terraform
    \/ destroy_clear_config
    \/ show_main_menu

SpecTerraform == InitTerraform /\ [][NextTerraform]_vars

\* deploy_infrastructure from its first statement to its last, chosen at
\* the main menu: with or without a configuration, with or without the
\* auto-approve switch, nothing written yet.
InitDeploy ==
    /\ outputs \in ReachableOutputs
    /\ status_answers = <<>> /\ invocation_answers = <<>>
    /\ pc = "menu"
    /\ FramesAtRest
    /\ SsmAtRest
    /\ GpAtRest
    /\ dcv_call = NoCall /\ dcv_before = NoDcv
    /\ ec2_instances = <<>> /\ running_instances = <<>>
    /\ stopped_instances = <<>> /\ read_password = None
    /\ auto_approve \in BOOLEAN
    /\ config \in {EmptyDict, DefaultConfig}
    /\ client_config_file = save_config(config)
    /\ client_config_exists = (config # EmptyDict)
    /\ steps = <<>>

NextDeploy ==
    \/ deploy_infrastructure_begin
    \/ deploy_step
    \/ deploy_save_dcv_password
    \/ deploy_run_script
    \/ deploy_generate_dcv_files
    \/ deploy_retrieve_password
    \/ deploy_retrieved_dcv_files
    \/ deploy_wait_for_ssm
    \/ deploy_partition
    \/ deploy_dispatch
    \/ deploy_skip
    \/ deploy_dispatch_returned
    \/ deploy_save_passwords
    \/ deploy_update_dcv_files
    \/ show_main_menu
    \/ KeyboardInterrupt
    \/ WaitStep
    \/ SsmStep

SpecDeploy == InitDeploy /\ [][NextDeploy]_vars

\* ================================================================ claims
\* Shared vocabulary of the properties below.
LoopPcs == {"r_wait", "r_loop", "r_dispatch", "d_wait", "d_loop", "d_dispatch"}

\* The dispatch loop of the current batch has finished.
AfterLoop ==
    /\ Truthy(shared_password)
    /\ \/ pc \in {"r_loop", "d_loop"} /\ idx > Len(instance_ids)
       \/ pc \in {"r_save", "d_update", "done"}

DispatchCount(id) == Cardinality({ k \in 1..Len(calls) : calls[k] = id })

SentCount(id) == Cardinality({ k \in 1..Len(sent) : sent[k].instance_id = id })

\* C1: a credential generated with the default length of 16 contains at least
\* one uppercase letter, one lowercase letter and one digit.
C1_PasswordHasThreeClasses ==
    (gp_pc = "returned" /\ gp_length = DefaultLength)
        => /\ AnyUpper(gp_password)
           /\ AnyLower(gp_password)
           /\ AnyDigit(gp_password)

\* C2: after a batch, the connection descriptor of an instance carries the
\* batch credential only if that instance's status is Applied.
C2_CredentialOnlyWhereApplied ==
    (pc = "done" /\ Truthy(shared_password))
        => \A i \in 1..Len(instance_ids) :
             LET f == dcv_files[instance_name(i)] IN
             (f.exists /\ f.has_password /\ f.password = shared_password)
                 => instance_ids[i] \in DOMAIN passwords

\* C3: the credential record is written only after the dispatch loop of the
\* batch has finished: while the batch waits for the agents or dispatches,
\* and when it is interrupted there, the run has written no record.
C3_NoRecordBeforeLoopEnds ==
    (pc \in LoopPcs \/ (pc = "exited" /\ exit_pc \in LoopPcs))
        => record_writes = <<>>

\* C4: one run generates exactly one credential, and every command the run
\* dispatches carries that credential.
C4_OneCredentialPerRun ==
    /\ Len(generated) <= 1
    /\ \A k \in 1..Len(sent) :
         /\ Len(generated) = 1
         /\ sent[k].password = generated[1]
    /\ \A k \in 1..Len(scripts) :
         /\ Len(generated) = 1
         /\ scripts[k].password = generated[1]

\* C5: a batch whose readiness wait reports no instance Ready generates no
\* credential, dispatches no command and writes no record.
C5_NothingWhenNoneReady ==
    (pc = "done" /\ ssm_ready # EmptyDict /\ ReadyInstances(ssm_ready) = {})
        => /\ generated = <<>>
           /\ sent = <<>>
           /\ record_writes = <<>>

\* C6: the record a batch writes has a status line for every requested
\* instance, also when there are fewer addresses than instances.
C6_RecordListsEveryInstance ==
    (pc = "done" /\ Truthy(shared_password) /\ passwords # EmptyDict)
        => /\ passwords_file.exists
           /\ \A i \in 1..Len(instance_ids) :
                \E k \in 1..Len(passwords_file.lines) :
                    /\ passwords_file.lines[k].instance_id = instance_ids[i]
                    /\ passwords_file.lines[k].status \in {SetStatus, NotSetStatus}

\* C7: every instance reported Ready is dispatched exactly once in the batch,
\* whatever the dispatches to the other instances returned, no instance is
\* dispatched twice, and the instances marked Applied are exactly those whose
\* own dispatch was answered Success.
C7_ReadyDispatchedOnce ==
    /\ \A i \in 1..Len(AllIds) : DispatchCount(AllIds[i]) <= 1
    /\ AfterLoop =>
         \A i \in 1..Len(instance_ids) :
            DispatchCount(instance_ids[i]) =
                IF instance_ids[i] \in ReadyInstances(ssm_ready) THEN 1 ELSE 0
    /\ (pc \in {"r_loop", "d_loop", "r_save", "d_update"} \/ AfterLoop)
         => DOMAIN passwords = applied

\* C7 happens: two Ready instances, the first one answered Success and the
\* second one not, both dispatched.
C7_Witness ==
    /\ pc = "done"
    /\ calls = <<"i-1", "i-2">>
    /\ DOMAIN passwords = {"i-1"}
    /\ s_reason = "none"

\* C8: in one run send_command is issued at most once per instance.
C8_SendAtMostOnce ==
    \A i \in 1..Len(AllIds) : SentCount(AllIds[i]) <= 1

\* C8 happens: the batch is over, both instances were sent the command and
\* neither was marked Applied.
C8_Witness ==
    /\ pc = "done"
    /\ Len(sent) = 2
    /\ passwords = EmptyDict
    /\ Truthy(shared_password)

FailedStatuses == {"Failed", "Cancelled", "TimedOut"}

\* The state part of C9: a dispatch that has returned, returned the
\* credential exactly when its last poll reported Success.
C9_Returned ==
    s_pc = "returned" =>
        /\ Truthy(s_ret) <=> (s_last.kind = "result" /\ s_last.Status = "Success")
        /\ Truthy(s_ret) => (s_ret = s_password /\ s_reason = "success")
        /\ s_reason = "timeout" => (s_ret = None /\ s_last = NoResponse)

\* The step part of C9: what a poll, and the 30th poll's successor, do.
C9_Step ==
    /\ \A response \in InvocationResponses :
         (response.kind = "result" /\ ssm_poll(response)) =>
            /\ response.Status = "Success"
                 => (s_pc' = "returned" /\ s_ret' = s_password /\ Truthy(s_ret'))
            /\ response.Status \in FailedStatuses
                 => (s_pc' = "returned" /\ s_ret' = None /\ s_reason' = "failed")
    /\ (s_pc # "returned" /\ s_pc' = "returned" /\ s_reason' = "timeout")
         => (s_polls = max_attempts /\ s_ret' = None)
    /\ (s_pc = "loop" /\ s_polls = max_attempts)
         => (s_pc' = "returned" /\ s_reason' = "timeout")

\* C9: set_windows_password_via_ssm returns the credential exactly when a
\* poll reports Success, returns None as soon as a poll reports Failed,
\* Cancelled or TimedOut, and returns None (timeout) after 30 polls without
\* a terminal status.
C9_DispatchResult == []C9_Returned /\ [][C9_Step]_vars

\* C9 happens: a dispatch returned the credential after a Success poll.
C9_Witness ==
    /\ s_pc = "returned"
    /\ Truthy(s_ret)
    /\ s_last.kind = "result"
    /\ s_last.Status = "Success"

\* The state part of C10: never more than 30 polls, and 2 seconds of wait
\* before each of them.
C10_Polls ==
    /\ s_polls <= max_attempts
    /\ s_pc = "poll" => /\ s_polls < max_attempts
                        /\ s_sleeps = PollSleepSeconds * (s_polls + 1)
    /\ s_pc = "loop" => s_sleeps = PollSleepSeconds * s_polls

\* C10: one dispatch makes at most 30 polls, each preceded by a 2-second
\* wait, and always returns, whatever the execution channel answers.
C10_BoundedPolling == []C10_Polls /\ <>(s_pc = "returned")

\* C10 happens: the 30th poll is about to be made, after 60 seconds of wait.
C10_Witness ==
    /\ s_pc = "poll"
    /\ s_polls = max_attempts - 1
    /\ s_sleeps = PollSleepSeconds * max_attempts

\* The step part of C11: a poll answered InvocationDoesNotExist uses up one
\* attempt and leaves the dispatch polling.
C11_Step ==
    \A response \in InvocationResponses :
        (response.kind = "InvocationDoesNotExist" /\ ssm_poll(response)) =>
            /\ s_pc' = "loop"
            /\ attempt' = attempt + 1
            /\ s_ret' = s_ret
            /\ s_reason' = "none"

\* The command was sent and the channel answers InvocationDoesNotExist to
\* the first k polls and Success to the next one.
SuccessAfterNotRegistered(k) ==
    /\ invocation_answers = NotRegisteredThenSuccess(k)
    /\ s_pc \in {"loop", "poll"} \/ (s_pc = "returned" /\ s_reason # "error")

\* The state part of C11: a dispatch whose Success comes after k < 30
\* InvocationDoesNotExist answers returns the credential.
C11_Returned ==
    \A k \in 1..(max_attempts - 1) :
        (SuccessAfterNotRegistered(k) /\ s_pc = "returned") =>
            /\ s_ret = s_password
            /\ Truthy(s_ret)
            /\ s_reason = "success"

\* C11: an InvocationDoesNotExist answer to a poll does not fail the
\* dispatch, polling goes on with the next attempt, and a Success reported
\* by a later poll within the 30 attempts yields Applied.
C11_NotRegisteredTolerated ==
    /\ [][C11_Step]_vars
    /\ []C11_Returned
    /\ \A k \in 1..(max_attempts - 1) :
         [](SuccessAfterNotRegistered(k) => <>(s_pc = "returned" /\ Truthy(s_ret)))

\* C11 happens: 29 polls answered InvocationDoesNotExist, the 30th Success,
\* and the dispatch returned the credential.
C11_Witness ==
    /\ s_pc = "returned"
    /\ invocation_answers = NotRegisteredThenSuccess(max_attempts - 1)
    /\ Truthy(s_ret)
    /\ s_last.Status = "Success"

DispatchPcs == {"r_dispatch", "d_dispatch"}

\* Every instance of the batch was dispatched once if Ready, never if not.
ReadyAllDispatched ==
    \A i \in 1..Len(instance_ids) :
        DispatchCount(instance_ids[i]) =
            IF instance_ids[i] \in ReadyInstances(ssm_ready) THEN 1 ELSE 0

\* The step part of C12: an error raised by a poll, or before the polling
\* starts, makes the dispatch return None to its caller at once; a dispatch
\* that has returned polls and sends no more; and the batch goes from an
\* error return to the next instance.
C12_Step ==
    /\ \A response \in InvocationResponses :
         (response.kind = "raise" /\ ssm_poll(response)) =>
            /\ s_pc' = "returned"
            /\ s_ret' = None
            /\ s_reason' = "error"
            /\ pc' = pc
    /\ (s_pc = "call" /\ s_pc' = "returned") =>
            /\ s_ret' = None
            /\ s_reason' = "error"
            /\ s_polls' = 0
            /\ pc' = pc
    /\ s_pc = "returned" =>
            /\ s_pc' \in {"returned", "idle"}
            /\ s_polls' = 0
            /\ sent' = sent \/ sent' = <<>>
    /\ (s_pc = "returned" /\ s_reason = "error" /\ pc \in DispatchPcs
            /\ pc' # pc /\ pc' # "exited") =>
            /\ pc' \in {"r_loop", "d_loop"}
            /\ idx' = idx + 1
            /\ instance_ids' = instance_ids
            /\ ssm_ready' = ssm_ready
            /\ passwords' = passwords

\* C12: an error other than InvocationDoesNotExist raised by send_command
\* or by a poll ends that instance's dispatch at once with None, without
\* leaving set_windows_password_via_ssm as an error, and the batch loop
\* goes on to the remaining Ready instances.
C12_ErrorEndsOneDispatch ==
    /\ [][C12_Step]_vars
    /\ [](AfterLoop => ReadyAllDispatched)

\* C12 happens: a poll of the first of two Ready instances raised, and the
\* dispatch has returned None to the batch loop.
C12_Witness ==
    /\ pc \in DispatchPcs
    /\ s_pc = "returned"
    /\ s_reason = "error"
    /\ s_last.kind = "raise"
    /\ s_ret = None
    /\ idx = 1
    /\ ReadyInstances(ssm_ready) = {"i-1", "i-2"}

InputIds == { w_instance_ids[i] : i \in 1..Len(w_instance_ids) }

\* C13: the map wait_for_ssm_ready returns has exactly the input IDs as its
\* keys, each mapped to a boolean, for every list, timeout and sequence of
\* statuses.
C13_KeysAreTheInput ==
    w_pc = "returned" =>
        /\ DOMAIN w_ready_instances = InputIds
        /\ \A id \in InputIds : w_ready_instances[id] \in BOOLEAN

\* C13 happens: a timeout of zero rounds, two instances, both in the map.
C13_Witness ==
    /\ w_pc = "returned"
    /\ max_checks = 0
    /\ DOMAIN w_ready_instances = {"i-1", "i-2"}
    /\ ~w_ready_instances["i-1"]
    /\ ~w_ready_instances["i-2"]

OnlineAnswer == [kind |-> "info", PingStatus |-> "Online"]

RaiseAnswer == [kind |-> "raise", PingStatus |-> ""]

\* The step part of C14: only an instance that is not yet in the dict is
\* queried, an Online answer puts it in the dict as True, and an entry that
\* is True stays True.
C14_Step ==
    /\ \A response \in StatusResponses :
         wait_query(response) =>
            /\ w_instance_ids[w_idx] \notin DOMAIN w_ready_instances
            /\ response = OnlineAnswer =>
                 /\ w_instance_ids[w_idx] \in DOMAIN w_ready_instances'
                 /\ w_ready_instances'[w_instance_ids[w_idx]]
    /\ \A id \in DOMAIN w_ready_instances :
         w_ready_instances[id] =>
            /\ id \in DOMAIN w_ready_instances'
            /\ w_ready_instances'[id]

\* The state part of C14: when the first query of the call, the one for the
\* first instance in the first round, is answered Online, that instance is
\* in the dict as True from then on.
C14_FirstOnline ==
    (w_asked >= 1 /\ status_answers[1] = OnlineAnswer) =>
        /\ w_instance_ids[1] \in DOMAIN w_ready_instances
        /\ w_ready_instances[w_instance_ids[1]]

\* C14: once a status query for an instance is answered Online, the
\* instance is not queried again in the call and is True in the returned
\* map, whatever the later answers are.
C14_OnceReadyStaysReady == [][C14_Step]_vars /\ []C14_FirstOnline

\* C14 happens: the first instance was Online in the first round, the
\* queries after it raised, the wait ran all its rounds and returned the
\* first instance as True.
C14_Witness ==
    /\ w_pc = "returned"
    /\ w_instance_ids = <<"i-1", "i-2">>
    /\ status_answers = <<OnlineAnswer, RaiseAnswer, RaiseAnswer>>
    /\ w_asked = 3
    /\ check_num = max_checks
    /\ w_ready_instances["i-1"]
    /\ ~w_ready_instances["i-2"]

IsReady(ready, id) == id \in DOMAIN ready /\ ready[id]

\* The step part of C15: an instance becomes True only by a query for it
\* that is answered Online, and any other answer leaves the dict as it was.
C15_Step ==
    /\ \A id \in DOMAIN w_ready_instances' :
         (w_ready_instances'[id] /\ ~IsReady(w_ready_instances, id)) =>
            /\ wait_query(OnlineAnswer)
            /\ id = w_instance_ids[w_idx]
    /\ \A response \in StatusResponses \ {OnlineAnswer} :
         wait_query(response) =>
            /\ w_ready_instances' = w_ready_instances
            /\ all_ready' = FALSE

\* The state part of C15: the call starts with an empty dict, and until
\* the rounds are over the dict holds nothing but True entries.
C15_OnlyTrueEntries ==
    /\ (w_pc = "for" /\ check_num = 0) => w_ready_instances = EmptyDict
    /\ w_pc \in {"for", "inner", "fill"} =>
         \A id \in DOMAIN w_ready_instances : w_ready_instances[id]

\* C15: wait_for_ssm_ready maps an instance to True only if a status query
\* for it in this call was answered exactly Online; every other answer, in
\* every round, leaves it False.
C15_OnlineOnly == [][C15_Step]_vars /\ []C15_OnlyTrueEntries

\* C15 happens: in all 30 rounds the first instance was never answered
\* Online and is False, the second one was answered Online and is True.
C15_Witness ==
    /\ w_pc = "returned"
    /\ w_instance_ids = <<"i-1", "i-2">>
    /\ status_answers = <<RaiseAnswer, OnlineAnswer>>
    /\ check_num = max_checks
    /\ timeout_minutes = BatchTimeoutMinutes
    /\ ~w_ready_instances["i-1"]
    /\ w_ready_instances["i-2"]

AllInputReady == \A id \in InputIds : IsReady(w_ready_instances, id)

\* The state part of C16: the rounds are bounded by timeout_minutes*60/30,
\* a round in which every instance is Ready is the last one, and the loop is
\* left only for one of these two reasons.
C16_Rounds ==
    /\ w_pc # "idle" => max_checks * check_interval = timeout_minutes * 60
    /\ check_num <= max_checks
    /\ w_pc = "inner" => check_num < max_checks
    /\ (w_pc = "inner" /\ w_idx > Len(w_instance_ids))
         => (all_ready <=> AllInputReady)
    /\ (w_pc = "for" /\ check_num >= 1) => ~AllInputReady
    /\ w_pc \in {"fill", "returned"}
         => (AllInputReady \/ check_num = max_checks)

\* C16: wait_for_ssm_ready always returns: at the end of the first round in
\* which every instance is Ready, or after timeout_minutes*60/30 rounds,
\* and it never makes more rounds than that.
C16_WaitTerminates == []C16_Rounds /\ <>(w_pc = "returned")

\* C16 happens: the wait returned after all 30 rounds of a 15-minute
\* timeout with an instance still not Ready.
C16_Witness ==
    /\ w_pc = "returned"
    /\ timeout_minutes = BatchTimeoutMinutes
    /\ check_num = 2 * BatchTimeoutMinutes
    /\ w_instance_ids = <<"i-1", "i-2">>
    /\ w_ready_instances["i-1"]
    /\ ~w_ready_instances["i-2"]
    /\ status_answers = <<>>

\* The step part of C17: a status query that raises moves the round on to
\* the next instance with the dict unchanged and all_ready cleared.
C17_Step ==
    wait_query(RaiseAnswer) =>
        /\ w_pc' = "inner"
        /\ w_idx' = w_idx + 1
        /\ check_num' = check_num
        /\ w_ready_instances' = w_ready_instances
        /\ all_ready' = FALSE

\* The first status query of the call raises and there is a second round.
FirstQueryRaises ==
    /\ Len(status_answers) >= 2
    /\ status_answers[1] = RaiseAnswer
    /\ status_answers[2] = OnlineAnswer
    /\ max_checks >= 2

\* The state part of C17, when the first query raises and the next two
\* answers are Online.  With one instance the second answer is given to it
\* in the second round.  With more instances the round goes on to the
\* second instance, which gets the second answer, and with two instances
\* the third answer is given to the first instance in the second round.
C17_AfterRaise ==
    /\ (FirstQueryRaises /\ Len(w_instance_ids) = 1 /\ w_asked = 2) =>
         /\ check_num = 1
         /\ IsReady(w_ready_instances, w_instance_ids[1])
    /\ (FirstQueryRaises /\ Len(w_instance_ids) >= 2 /\ w_asked = 1) =>
         /\ w_pc = "inner"
         /\ check_num = 0
         /\ w_idx = 2
         /\ w_ready_instances = EmptyDict
    /\ (FirstQueryRaises /\ Len(w_instance_ids) >= 2 /\ w_asked >= 2) =>
         IsReady(w_ready_instances, w_instance_ids[2])
    /\ (FirstQueryRaises /\ Len(w_instance_ids) = 2 /\ w_asked = 3
            /\ status_answers[3] = OnlineAnswer) =>
         /\ check_num = 1
         /\ IsReady(w_ready_instances, w_instance_ids[1])
         /\ IsReady(w_ready_instances, w_instance_ids[2])

\* C17: a status query that raises counts as not-yet-ready for that
\* instance in that round only: the wait goes on, the other instances are
\* queried in the same round, and the instance is queried again in the
\* next round.
C17_RaiseIsNotReady ==
    /\ [][C17_Step]_vars
    /\ []C17_AfterRaise
    /\ [](FirstQueryRaises /\ w_instance_ids # <<>> /\ w_asked = 1
            => <>(w_asked = 2))

\* C17 happens: the query for the first of two instances raised in the
\* first round, the second instance was answered Online in that round, the
\* first one in the second round, and the wait returned both as True.
C17_Witness ==
    /\ w_pc = "returned"
    /\ w_instance_ids = <<"i-1", "i-2">>
    /\ status_answers = <<RaiseAnswer, OnlineAnswer, OnlineAnswer>>
    /\ check_num = 1
    /\ w_ready_instances["i-1"]
    /\ w_ready_instances["i-2"]

\* C18: a command is sent to an instance only after the readiness wait of
\* the batch has returned, and only to an instance that the wait mapped to
\* True.
C18_SentOnlyToReady ==
    /\ w_pc # "idle" => (sent = <<>> /\ calls = <<>> /\ s_pc = "idle")
    /\ s_pc # "idle" =>
         /\ w_pc = "idle"
         /\ s_instance \in ReadyInstances(ssm_ready)
    /\ \A k \in 1..Len(sent) :
         /\ ssm_ready # EmptyDict
         /\ sent[k].instance_id \in ReadyInstances(ssm_ready)
    /\ \A k \in 1..Len(calls) : calls[k] \in ReadyInstances(ssm_ready)

\* C18 happens: the wait mapped the first instance to False and the second
\* to True, and the batch sent one command, to the second.
C18_Witness ==
    /\ pc = "done"
    /\ DOMAIN ssm_ready = {"i-1", "i-2"}
    /\ ~ssm_ready["i-1"]
    /\ ssm_ready["i-2"]
    /\ Len(sent) = 1
    /\ sent[1].instance_id = "i-2"

\* Where an instance stands in the list of the batch.
Position(id) == CHOOSE i \in 1..Len(instance_ids) : instance_ids[i] = id

InputList == { instance_ids[i] : i \in 1..Len(instance_ids) }

\* C19: the dispatches of a batch are made one after the other in the order
\* of the input list: a command is sent only when every earlier dispatch
\* has returned, so the only command whose result is awaited is the last
\* one sent.
C19_SequentialInOrder ==
    /\ Len(sent) <= Len(calls)
    /\ \A k \in 1..Len(calls) : calls[k] \in InputList
    /\ \A j, k \in 1..Len(calls) :
         j < k => Position(calls[j]) < Position(calls[k])
    /\ \A j, k \in 1..Len(sent) :
         j < k => Position(sent[j].instance_id) < Position(sent[k].instance_id)
    /\ (s_pc # "idle" /\ pc \in DispatchPcs) =>
         /\ s_instance = instance_ids[idx]
         /\ calls[Len(calls)] = s_instance
         /\ \A k \in 1..(Len(calls) - 1) : Position(calls[k]) < idx
    /\ (s_pc = "call" /\ pc \in DispatchPcs) => SentCount(s_instance) = 0
    /\ (s_pc \in {"loop", "poll"} /\ pc \in DispatchPcs) =>
         /\ sent[Len(sent)].instance_id = s_instance
         /\ \A k \in 1..(Len(sent) - 1) :
              Position(sent[k].instance_id) < idx
    /\ (s_pc = "idle" /\ pc \in {"r_loop", "d_loop"}) =>
         \A k \in 1..Len(calls) : Position(calls[k]) < idx

\* C19 happens: the result of the command sent to the second instance is
\* awaited, after the dispatch to the first instance returned Applied.
C19_Witness ==
    /\ pc \in DispatchPcs
    /\ s_pc = "poll"
    /\ idx = 2
    /\ Len(sent) = 2
    /\ sent[1].instance_id = "i-1"
    /\ sent[2].instance_id = "i-2"
    /\ DOMAIN passwords = {"i-1"}

\* C20: every completed batch that generated a credential leaves the record
\* file holding that batch's credential and that batch's per-instance
\* statuses, and nothing of an earlier batch.
C20_RecordIsLatestBatch ==
    (pc = "done" /\ Truthy(shared_password)) =>
        /\ passwords_file.exists
        /\ passwords_file.password = shared_password
        /\ \A k \in 1..Len(passwords_file.lines) :
             LET line == passwords_file.lines[k] IN
             /\ line.instance_id \in InputList
             /\ line.status = IF line.instance_id \in DOMAIN passwords
                              THEN SetStatus ELSE NotSetStatus

\* C21: at the end of a batch, every instance marked Applied whose IP is
\* known has a descriptor that embeds the batch's shared credential, which
\* is also the value sent in that instance's dispatch and the one stored in
\* the record.
C21_DescriptorHasSharedCredential ==
    (pc = "done" /\ Truthy(shared_password)) =>
        \A i \in 1..Len(instance_ids) :
            (instance_ids[i] \in DOMAIN passwords /\ i <= Len(public_ips)) =>
                LET f == dcv_files[instance_name(i)] IN
                /\ f.exists
                /\ f.host = public_ips[i]
                /\ f.has_password
                /\ f.password = shared_password
                /\ passwords[instance_ids[i]] = shared_password
                /\ \E k \in 1..Len(sent) : sent[k].instance_id = instance_ids[i]
                /\ \A k \in 1..Len(sent) :
                     sent[k].instance_id = instance_ids[i]
                         => sent[k].password = shared_password
                /\ passwords_file.exists
                /\ passwords_file.password = shared_password

\* C21 happens: a deployment whose first instance was answered Success and
\* whose second one was not, both with a known IP, the descriptors written.
C21_Witness ==
    /\ pc = "done"
    /\ op = "deploy"
    /\ Len(public_ips) = 2
    /\ calls = <<"i-1", "i-2">>
    /\ DOMAIN passwords = {"i-1"}
    /\ dcv_files[instance_name(1)].password = shared_password
    /\ dcv_password # shared_password

\* C23: for every requested length of at least 1 and every sampled string,
\* the password generate_secure_password returns has exactly `length`
\* characters.
C23_LengthPreserved ==
    gp_pc = "returned" => Len(gp_password) = gp_length

\* C24: a batch run on an empty instance list ends without any status query,
\* sleep, credential generation or dispatch, and writes no record.
C24_EmptyListDoesNothing ==
    (outputs.present /\ outputs.instance_ids = <<>>) =>
        /\ generated = <<>>
        /\ calls = <<>>
        /\ sent = <<>>
        /\ record_writes = <<>>
        /\ ~(w_pc = "inner" /\ w_idx <= Len(w_instance_ids))
        /\ check_num = 0

RecognisedStatuses ==
    {"Success", "Failed", "Cancelled", "TimedOut", "Pending", "InProgress", "Delayed"}

\* The step part of C29: a poll answered with a Status outside the seven
\* recognised values returns nothing and goes on to the next attempt.
C29_Step ==
    \A response \in InvocationResponses :
        (/\ response.kind = "result"
         /\ response.Status \notin RecognisedStatuses
         /\ ssm_poll(response)) =>
            /\ s_pc' = "loop"
            /\ attempt' = attempt + 1
            /\ s_polls' = s_polls + 1
            /\ s_ret' = None
            /\ s_reason' = "none"

\* C29: a polled status outside the seven recognised values is non-terminal:
\* polling continues, and a dispatch whose 30 polls are all answered that way
\* ends as a timeout.
C29_UnrecognisedIsNonTerminal ==
    /\ [][C29_Step]_vars
    /\ []((invocation_answers = UnrecognisedThroughout /\ s_pc = "loop")
            => <>(s_pc = "returned" /\ s_reason = "timeout" /\ s_ret = None))

\* C29 happens: the command was sent, every poll was answered with the
\* unrecognised status, and the dispatch returned as a timeout.
C29_Witness ==
    /\ invocation_answers = UnrecognisedThroughout
    /\ Len(sent) = 1
    /\ s_pc = "returned"
    /\ s_reason = "timeout"

\* The state part of C25: the descriptor the latest call wrote holds what
\* that call was given and nothing else.
C25_Content ==
    dcv_call # NoCall =>
        dcv_files[dcv_call.instance_name] =
            [exists |-> TRUE, host |-> dcv_call.instance_ip,
             has_user |-> dcv_call.username # None, user |-> dcv_call.username,
             has_password |-> dcv_call.password # None,
             password |-> dcv_call.password]

\* The step part of C25: a call leaves the descriptors of the other display
\* names as they were.
C25_Frame ==
    \A instance_ip \in DcvIps, name \in DcvNames,
       username \in Usernames, pw \in DcvPasswords :
        generate_dcv_file(instance_ip, name, username, pw) =>
            \A n \in Names \ {name} : dcv_files'[n] = dcv_files[n]

\* C25: writing a descriptor for a display name that already has one fully
\* replaces it: the content depends only on the arguments of the latest call
\* (a username or credential of the earlier write is gone unless passed
\* again), and the descriptors of other display names are unchanged.
C25_WriteReplaces == []C25_Content /\ [][C25_Frame]_vars

\* C25 happens: a descriptor with another host, a user and a password was
\* overwritten by a call that passed neither user nor password, while
\* another display name has a descriptor too.
C25_Witness ==
    /\ dcv_call # NoCall
    /\ dcv_before.exists
    /\ dcv_before.has_user
    /\ dcv_before.has_password
    /\ dcv_before.host # dcv_call.instance_ip
    /\ dcv_call.username = None
    /\ dcv_call.password = None
    /\ \E n \in Names \ {dcv_call.instance_name} : dcv_files[n].has_password

\* C26: generate_dcv_file writes a user field if and only if the username
\* argument is non-empty, a password field if and only if the password
\* argument is non-empty, and the host field is always the given IP.
C26_OmissionRule ==
    dcv_call # NoCall =>
        LET f == dcv_files[dcv_call.instance_name] IN
        /\ f.has_user <=> Truthy(dcv_call.username)
        /\ f.has_password <=> Truthy(dcv_call.password)
        /\ f.host = dcv_call.instance_ip

\* C26 happens: a call with a username and without a password.
C26_Witness ==
    /\ Truthy(dcv_call.username)
    /\ ~Truthy(dcv_call.password)
    /\ dcv_files[dcv_call.instance_name].has_user
    /\ ~dcv_files[dcv_call.instance_name].has_password

\* The address EC2 reports for an instance, "" when it reports none.
CurrentIp(id) ==
    LET k == CHOOSE k \in 1..Len(ec2_instances) : ec2_instances[k].InstanceId = id
    IN ec2_instances[k].PublicIpAddress

\* start_all_instances went through its regeneration step.
Regenerated == pc = "done" /\ op = "start" /\ public_ips # <<>>

\* C22: after start_all_instances has started stopped instances, every
\* instance's connection descriptor is regenerated so that its host is that
\* same instance's current public IP.
C22_DescriptorsFollowRestart ==
    Regenerated =>
        \A i \in 1..Len(instance_ids) :
            CurrentIp(instance_ids[i]) # "" =>
                /\ dcv_files[instance_name(i)].exists
                /\ dcv_files[instance_name(i)].host = CurrentIp(instance_ids[i])

\* C30: the credential start_all_instances reads back from the record (the
\* first line whose stripped text starts with "Password:") is the one the
\* latest writer of the record wrote, for every password
\* generate_secure_password can produce, and it is the value embedded in
\* the descriptors regenerated after the restart.
C30_ReadBackIsWritten ==
    /\ passwords_file.exists =>
         read_password_from(record_text(passwords_file)) = passwords_file.password
    /\ Truthy(read_password) => read_password = passwords_file.password
    /\ Regenerated =>
         \A i \in ZipRange(instance_ids, public_ips) :
            /\ dcv_files[instance_name(i)].has_password = Truthy(read_password)
            /\ dcv_files[instance_name(i)].password = read_password

\* C30 happens: the record of a batch holds a password that begins with a
\* symbol, it was read back, and the descriptors were regenerated with it.
C30_Witness ==
    /\ Regenerated
    /\ passwords_file.note
    /\ passwords_file.password \in StartPasswords
    /\ passwords_file.password[1] = "!"
    /\ read_password = passwords_file.password
    /\ dcv_files[instance_name(1)].password = read_password

\* An outcome that lets the run go on: the command succeeded or the operator
\* confirmed; a confirmation is skipped only under auto_approve.
WentOn(entry) ==
    \/ entry.outcome = "ok"
    \/ entry.outcome = "skipped" /\ entry.step \in Confirmations /\ auto_approve

\* The state part of C27: the steps come in the order of the code, each one
\* after the one before went on; apply comes after the four commands
\* succeeded and, without auto_approve, after both confirmations; and
\* Step 6 and what follows it (a credential, the record, a script, a
\* dispatch) happen only after apply succeeded.
C27_Steps ==
    op = "deploy" =>
        /\ \A k \in 1..Len(steps) :
             /\ steps[k].step = DeploySteps[k]
             /\ k < Len(steps) => WentOn(steps[k])
             /\ steps[k].outcome = "failed" => pc \in {"done", "exited"}
        /\ \A k \in 1..Len(steps) :
             steps[k].step = "apply" =>
                /\ \E w, i, v, p \in 1..(k - 1) :
                     /\ w < i /\ i < v /\ v < p
                     /\ steps[w] = [step |-> "write_terraform_files", outcome |-> "ok"]
                     /\ steps[i] = [step |-> "init", outcome |-> "ok"]
                     /\ steps[v] = [step |-> "validate", outcome |-> "ok"]
                     /\ steps[p] = [step |-> "plan", outcome |-> "ok"]
                /\ ~auto_approve =>
                     \A c \in Confirmations :
                        \E j \in 1..(k - 1) : steps[j] = [step |-> c, outcome |-> "ok"]
        /\ (\/ pc \notin {"menu", "t_deploy", "done", "exited"}
            \/ generated # <<>> \/ record_writes # <<>>
            \/ scripts # <<>> \/ calls # <<>> \/ sent # <<>>) =>
               /\ Len(steps) = Len(DeploySteps)
               /\ steps[Len(steps)] = [step |-> "apply", outcome |-> "ok"]

\* The step part of C27: after a step that failed or was declined, apply
\* included, the run logs no further step and writes no file; it returns
\* to the menu or the process ends.
C27_AfterFailure ==
    (/\ op = "deploy"
     /\ steps # <<>>
     /\ steps[Len(steps)].outcome = "failed") =>
        /\ steps' \in {steps, <<>>}
        /\ pc' \in {"done", "menu", "exited"}
        /\ UNCHANGED <<fileVars, generated, sent, calls, scripts, record_writes>>

\* C27: in deploy_infrastructure, terraform apply is run only after
\* write_terraform_files, init, validate and plan have each succeeded in that
\* run, in that order, and (unless auto_approve) after both confirmations; a
\* failure or a declined confirmation at any step ends the run without any
\* later step.
C27_ApplyAfterAllSteps == []C27_Steps /\ [][C27_AfterFailure]_vars

\* C27 happens: without auto_approve, a run went through every step to a
\* successful apply and on through Step 6 to its end, the record written.
C27_Witness ==
    /\ op = "deploy"
    /\ ~auto_approve
    /\ pc = "done"
    /\ Len(steps) = Len(DeploySteps)
    /\ steps[Len(steps)] = [step |-> "apply", outcome |-> "ok"]
    /\ record_writes # <<>>
    /\ passwords_file.exists

\* The state part of C28: terraform destroy is run only when the outputs list
\* an instance and the operator confirmed or auto_approve is set.
C28_DestroyGuarded ==
    \A k \in 1..Len(steps) :
        steps[k].step = "destroy" =>
            /\ outputs.present
            /\ outputs.instance_ids # <<>>
            /\ k = 2
            /\ steps[1].step = "Destroy all resources?"
            /\ \/ steps[1].outcome = "ok"
               \/ steps[1].outcome = "skipped" /\ auto_approve

\* The step part of C28: a step of destroy_infrastructure changes the
\* configuration, in memory or stored, only after a successful destroy and
\* a confirmation of its own, and what is left is the AWS credential keys and
\* the region as they were. (The return to the main menu, which may load an
\* empty configuration again from its file, is no step of the operation.)
C28_ConfigStep ==
    (/\ op' = "destroy"
     /\ pc # "done"
     /\ \/ config' # config
        \/ client_config_file' # client_config_file
        \/ client_config_exists' # client_config_exists) =>
        /\ \E k \in 1..Len(steps) : steps[k] = [step |-> "destroy", outcome |-> "ok"]
        /\ steps' = Append(steps, [step |-> "Clear stored client configuration?",
                                    outcome |-> "ok"])
        /\ DOMAIN config' = DOMAIN config \cap preserved_keys
        /\ \A key \in DOMAIN config' : config'[key] = config[key]
        /\ client_config_file' \in {client_config_file, config'}

\* C28: destroy_infrastructure runs terraform destroy only when the outputs
\* list at least one instance and either auto_approve is set or the operator
\* confirmed; the stored configuration is changed only after a successful
\* destroy plus a further confirmation, and then keeps the AWS credential
\* keys and the region.
C28_DestroyAndConfig == []C28_DestroyGuarded /\ [][C28_ConfigStep]_vars

\* C28 happens: the operator confirmed the destroy and the clearing, and the
\* stored configuration now holds the credential keys and the region only.
C28_Witness ==
    /\ op = "destroy"
    /\ pc = "done"
    /\ ~auto_approve
    /\ Len(steps) = 3
    /\ steps[3].outcome = "ok"
    /\ DOMAIN client_config_file = preserved_keys
====
